---- MODULE Spec2Model ----
(***************************************************************************)
(* A model of hemmelig: the multi-party relay server                       *)
(* (cmd/relay-server/main.go), the multi-party client (internal/ui/model.go*)
(* and internal/network/network.go) and the two-party secure transport     *)
(* (internal/crypto/crypto.go and the two-party network package).          *)
(*                                                                         *)
(* Connections are numbered in the order the listener accepts them; the    *)
(* client id the relay mints for a connection (uuid.New) is modelled by    *)
(* that number, and the session id it mints for an empty CREATE by UUID.   *)
(***************************************************************************)
EXTENDS Integers, Sequences, FiniteSets, TLC

(***************************************************************************)
(* Bounds of the model.                                                    *)
(***************************************************************************)
\* connections the listener accepts in one behaviour
MaxConns == 3
\* lines peers send after their opening command in one behaviour
MaxLines == 1
\* largest member set whose map iteration order is enumerated in full
MaxPermute == 3
\* calls of SendData a two-party run makes beyond the nickname exchange
MaxSends == 2
\* messages a member has queued in a run that checks their order
MaxScript == 2
\* user inputs and peer lines in a run with file transfers
MaxInputs == 3
\* largest file size limit, in bytes, RequestSendFile is run with on its own
MaxLimit == 3
\* longest file name, in characters, an offer carries in a run that accepts it
MaxName == 4

(***************************************************************************)
(* Program constants.                                                      *)
(***************************************************************************)
\* main.go:171  if len(session.Clients) >= 256
MaxMembers == 256
\* x25519.Key / [32]byte
KeySize == 32
\* filetransfer.go:72  buffer := make([]byte, 1024*4)
ChunkSize == 4096
\* cmd/hemmelig/main.go:19  the default of -max-file-size, in MB
MaxFileSizeMB == 10

\* main.go:265: the types relayData forwards to one recipient
DirectedTypesMissingLast == {"message", "file_offer", "file_accept", "file_reject", "file_chunk"}
DirectedTypes == {"message", "file_offer", "file_accept", "file_reject", "file_chunk", "file_done"}

(***************************************************************************)
(* encoding/json renders a []byte as a base64 string (StdEncoding, padded) *)
(* and a nil slice as null; it decodes such a string back into the bytes.  *)
(* Characters are their ASCII codes.                                       *)
(***************************************************************************)
B64Char(v) ==
    IF v < 26 THEN 65 + v
    ELSE IF v < 52 THEN 97 + (v - 26)
    ELSE IF v < 62 THEN 48 + (v - 52)
    ELSE IF v = 62 THEN 43 ELSE 47

B64Val(ch) ==
    IF ch >= 65 /\ ch <= 90 THEN ch - 65
    ELSE IF ch >= 97 /\ ch <= 122 THEN ch - 97 + 26
    ELSE IF ch >= 48 /\ ch <= 57 THEN ch - 48 + 52
    ELSE IF ch = 43 THEN 62
    ELSE IF ch = 47 THEN 63 ELSE 0

Base64Encode(b) ==
    LET n == Len(b)
        at(i) == IF i <= n THEN b[i] ELSE 0
        quad(g) ==
            LET v == at(3 * g - 2) * 65536 + at(3 * g - 1) * 256 + at(3 * g)
            IN  << B64Char(v \div 262144),
                   B64Char((v \div 4096) % 64),
                   IF 3 * g - 1 > n THEN 61 ELSE B64Char((v \div 64) % 64),
                   IF 3 * g > n THEN 61 ELSE B64Char(v % 64) >>
    IN  [i \in 1..(4 * ((n + 2) \div 3)) |-> quad((i + 3) \div 4)[((i - 1) % 4) + 1]]

Base64Decode(s) ==
    LET pad == Cardinality({i \in 1..Len(s) : s[i] = 61})
        n == 3 * (Len(s) \div 4) - pad
        word(g) == B64Val(s[4 * g - 3]) * 262144 + B64Val(s[4 * g - 2]) * 4096
                   + B64Val(s[4 * g - 1]) * 64 + B64Val(s[4 * g])
        byte(i) ==
            LET w == word((i + 2) \div 3)
                k == (i - 1) % 3
            IN  IF k = 0 THEN w \div 65536
                ELSE IF k = 1 THEN (w \div 256) % 256 ELSE w % 256
    IN  [i \in 1..n |-> byte(i)]

\* json.Marshal of a []byte field: nil is null, anything else a base64 string
JsonBytes(b) ==
    IF b = <<>> THEN [isNull |-> TRUE, str |-> <<>>]
    ELSE [isNull |-> FALSE, str |-> Base64Encode(b)]

\* json.Unmarshal into a []byte field: null or absent leaves it nil
UnJsonBytes(j) == IF j.isNull THEN <<>> ELSE Base64Decode(j.str)

(***************************************************************************)
(* Keys.  A private scalar is 32 random bytes; the public point is the     *)
(* base point multiplied by it, and the shared secret is the peer's point  *)
(* multiplied by it.  The model computes the multiplication byte by byte   *)
(* as exponentiation modulo the prime 251 with generator 6, which keeps    *)
(* what the protocol relies on: the result depends on the scalar and the   *)
(* point only, and Shared(a, Pub(b)) = Shared(b, Pub(a)).                  *)
(***************************************************************************)
PrivateKey(c) == [i \in 1..KeySize |-> (c * 37 + i * 11) % 256]

RECURSIVE PowMod(_, _)
PowMod(b, e) ==
    IF e = 0 THEN 1
    ELSE LET h == PowMod(b, e \div 2)
         IN  IF e % 2 = 0 THEN (h * h) % 251 ELSE (h * h * b) % 251

\* curve25519.ScalarBaseMult(&publicKey, &privateKey)
ScalarBaseMult(priv) == [i \in 1..KeySize |-> PowMod(6, priv[i])]

PublicKey(c) == ScalarBaseMult(PrivateKey(c))

\* x25519.Shared(&sharedKey, &privateKey, &publicKey)
ComputeSharedSecret(privateKey, publicKey) ==
    [i \in 1..KeySize |-> PowMod(publicKey[i], privateKey[i])]

\* var k [32]byte; copy(k[:], b)
CopyKey(b) == [i \in 1..KeySize |-> IF i <= Len(b) THEN b[i] ELSE 0]

(***************************************************************************)
(* State.                                                                  *)
(***************************************************************************)
VARIABLES
    sessions,   \* RelayServer.sessions: session id -> Session (named by its OwnerID)
    objs,       \* the Session objects ever allocated: OwnerID -> Session
    clients,    \* the Client of each admitted connection
    pc,         \* where the goroutine serving each connection stands
    open,       \* open[c]: the relay has not closed connection c
    up,         \* up[c]: complete lines the peer sent that the relay has not read
    down,       \* down[c]: lines delivered to client c that it has not read
                \* (kept for the connections whose peer runs the client program)
    last,       \* the relay's most recent step and the conn.Write calls it made
    relayed,    \* relayed[o]: bytes relayData has forwarded within session o
                \* (a measure kept for the bandwidth property; the Session struct keeps none)
    budget,     \* connections the listener may still accept
    nsent,      \* lines sent by peers after their opening command
    model,      \* model[c]: the ui.Model of the client program behind connection c
    peer,       \* the two-party client on each side of a direct connection
    wire,       \* the direct connection: bytes in flight each way, and what was written
    call,       \* the function of the client last run on its own: arguments and outcome
    locks       \* the relay's mutexes and the conn.Write calls under way, in the runs
                \* that follow the goroutines statement by statement

Conns == DOMAIN pc

\* uuid.New().String() for the session of connection c
UUID(c) == "u" \o ToString(c)

NoLine == [kind |-> "none"]

\* no function has been run on its own
NoCall == [fn |-> ""]

\* both kinds of mutex free, no write under way
NoLocks == [mu |-> 0, smu |-> <<>>, ses |-> <<>>, todo |-> <<>>, w |-> <<>>, next |-> <<>>]

\* a plaintext reply line: fmt.Sprintf("<text>%s\n", arg)
Plain(text, arg) == [kind |-> "plain", text |-> text, arg |-> arg]

\* the opening command a peer writes (model.go:173-190)
Opening(cmd, sid, nick, key) ==
    [kind |-> "json", command |-> cmd, sessionID |-> sid, nickname |-> nick,
     publicKey |-> JsonBytes(key)]

\* a line a peer writes after admission; recipient 0 / sender 0: field absent
RelayMsg(type, recipient, sender, ciphertext) ==
    [kind |-> "json", type |-> type, recipient |-> recipient, sender |-> sender,
     ciphertext |-> ciphertext]

\* main.go:189-194
UserJoined(cl) ==
    [kind |-> "json", type |-> "user_joined", userID |-> cl.id,
     nickname |-> cl.nickname, publicKey |-> JsonBytes(cl.publicKey)]

\* main.go:202-207
PublicKeyInfo(cl) ==
    [kind |-> "json", type |-> "public_key", userID |-> cl.id,
     nickname |-> cl.nickname, publicKey |-> JsonBytes(cl.publicKey)]

\* main.go:233-236
UserLeft(c) == [kind |-> "json", type |-> "user_left", userID |-> c]

\* main.go:151-154
SessionCreated(sid) == [kind |-> "json", type |-> "session_created", sessionID |-> sid]

(***************************************************************************)
(* The orders in which a range over a Go map may visit the set S.  Sets    *)
(* larger than MaxPermute are visited in ascending or descending order.    *)
(***************************************************************************)
Ascending(S) ==
    LET rank == [x \in S |-> Cardinality({y \in S : y < x})]
    IN  [i \in 1..Cardinality(S) |-> CHOOSE x \in S : rank[x] = i - 1]

Orderings(S) ==
    IF Cardinality(S) <= MaxPermute
    THEN {f \in [1..Cardinality(S) -> S] : \A i, j \in 1..Cardinality(S) : i # j => f[i] # f[j]}
    ELSE LET asc == Ascending(S)
             n == Len(asc)
         IN  {asc, [i \in 1..n |-> asc[n + 1 - i]]}

\* main.go:275 and 287, mutated: a line is written ahead of the earlier ones
DeliverFirst(ws) ==
    [c \in DOMAIN down |-> IF c \in DOMAIN ws /\ open[c] THEN ws[c] \o down[c] ELSE down[c]]

\* conn.Write on each connection of DOMAIN ws: the bytes reach the peer
\* unless the relay has closed that connection (the write fails)
Deliver(ws) ==
    [c \in DOMAIN down |-> IF c \in DOMAIN ws /\ open[c] THEN down[c] \o ws[c] ELSE down[c]]

Extend(f, k, v) == [x \in DOMAIN f \cup {k} |-> IF x = k THEN v ELSE f[x]]

\* main.go:307, mutated: the registry entry stays
Kept(f, k) == f

Without(f, k) == [x \in DOMAIN f \ {k} |-> f[x]]

(***************************************************************************)
(* The peers.                                                              *)
(***************************************************************************)
Commands == {"CREATE", "JOIN", "PING"}
Nicknames == {"neo"}
\* opaque payloads, each with the number of bytes it takes in the JSON line:
\* a short text, and a line as long as the peer likes (relayData's
\* ReadBytes puts no bound on a line)
Hello == [id |-> "hello", len |-> 5]
Huge == [id |-> "huge", len |-> 60 * 1024 * 1024]

\* session ids a peer may name: none, a chosen one, or one it was told of
SessionIDsIn == {"", "s1"} \cup {objs[o].ID : o \in DOMAIN objs}

\* net.Dial, then the opening command is written; the listener accepts.
\* handleConnection runs under the registry mutex from the moment it has
\* read the opening line, so connections are taken up one at a time, in
\* the order they are numbered.
Connect(cmd, sid, key) ==
    /\ budget > 0
    /\ \A d \in Conns : pc[d] # "accepted"
    /\ LET c == Cardinality(Conns) + 1
       IN  /\ pc' = Extend(pc, c, "accepted")
           /\ open' = Extend(open, c, TRUE)
           /\ up' = Extend(up, c, << Opening(cmd, sid, CHOOSE n \in Nicknames : TRUE, key) >>)
    /\ budget' = budget - 1
    /\ UNCHANGED <<sessions, objs, clients, down, last, relayed, nsent, model, peer, wire, call, locks>>

\* a peer writes one more line
PeerSend(c, m) ==
    /\ pc[c] \in {"accepted", "relay"}
    /\ nsent < MaxLines
    /\ up' = [up EXCEPT ![c] = Append(@, m)]
    /\ nsent' = nsent + 1
    /\ UNCHANGED <<sessions, objs, clients, pc, open, down, last, relayed, budget, model, peer, wire, call, locks>>

(***************************************************************************)
(* The relay: handleConnection (main.go:86-226).  One step runs from the   *)
(* opening line being read to the goroutine's return; the registry mutex   *)
(* is held from line 116 to the reply.  The bufio.Reader of line 95 may    *)
(* have read `lost` further lines with the opening one; relayData reads    *)
(* the connection through a new reader (line 245) and never sees them.     *)
(***************************************************************************)
Step(op, c, m, ws, members) ==
    [op |-> op, conn |-> c, msg |-> m, writes |-> ws, members |-> members,
     ok |-> {d \in DOMAIN ws : open[d]}]

\* main.go:171, mutated to an off-by-one comparison
SessionFullOffByOne(s) == Cardinality(s.Clients) > MaxMembers

\* main.go:171
SessionFull(s) == Cardinality(s.Clients) >= MaxMembers

\* the error replies of handleConnection, mutated: conn.Close() is left out
RejectLeftOpen(c, clientMsg, text, members) ==
    LET ws == (c :> << Plain(text, "") >>)
    IN  /\ down' = Deliver(ws)
        /\ open' = open
        /\ pc' = [pc EXCEPT ![c] = "rejected"]
        /\ up' = [up EXCEPT ![c] = <<>>]
        /\ last' = [op |-> "reject", conn |-> c, msg |-> clientMsg, writes |-> ws,
                    members |-> members, ok |-> {d \in DOMAIN ws : open[d]}]
        /\ UNCHANGED <<sessions, objs, clients, relayed>>

\* an "Error: ..." reply, then conn.Close()
Reject(c, clientMsg, text, members) ==
    LET ws == (c :> << Plain(text, "") >>)
    IN  /\ down' = Deliver(ws)
        /\ open' = [open EXCEPT ![c] = FALSE]
        /\ pc' = [pc EXCEPT ![c] = "rejected"]
        /\ up' = [up EXCEPT ![c] = <<>>]
        /\ last' = Step("reject", c, clientMsg, ws, members)
        /\ UNCHANGED <<sessions, objs, clients, relayed>>

\* main.go:141-148, mutated: the session starts with no member
NewSessionEmpty(sessionID, c) ==
    [ID |-> sessionID, OwnerID |-> c, Clients |-> {}, Banned |-> {}]

\* main.go:141-148
NewSession(sessionID, c) ==
    [ID |-> sessionID, OwnerID |-> c, Clients |-> {c}, Banned |-> {}]

\* main.go:127-158
Create(c, client, clientMsg, rest) ==
    LET sessionID == IF clientMsg.sessionID = "" THEN UUID(c) ELSE clientMsg.sessionID
    IN  IF clientMsg.sessionID # "" /\ clientMsg.sessionID \in DOMAIN sessions
        THEN Reject(c, clientMsg, "Error: Session ID already exists", {})
        ELSE LET ws == (c :> << SessionCreated(sessionID) >>)
             IN  /\ objs' = Extend(objs, c, NewSession(sessionID, c))
                 /\ sessions' = Extend(sessions, sessionID, c)
                 /\ clients' = Extend(clients, c, [client EXCEPT !.session = c])
                 /\ down' = Deliver(ws)
                 /\ pc' = [pc EXCEPT ![c] = "relay"]
                 /\ up' = [up EXCEPT ![c] = rest]
                 /\ last' = Step("create", c, clientMsg, ws, {})
                 /\ relayed' = Extend(relayed, c, 0)
                 /\ UNCHANGED open

\* main.go:188-214, with user_joined sent to nobody
JoinWritesNoNotify(c, client, s, ord) ==
    (c :> ([i \in 1..Len(ord) |-> PublicKeyInfo(clients[ord[i]])]
            \o << Plain("Joined session: ", s.ID) >>))

\* main.go:188-214: the conn.Write calls of a successful JOIN, per connection
JoinWrites(c, client, s, ord) ==
    [d \in s.Clients \cup {c} |->
        IF d = c
        THEN [i \in 1..Len(ord) |-> PublicKeyInfo(clients[ord[i]])]
             \o << Plain("Joined session: ", s.ID) >>
        ELSE << UserJoined(client) >>]

\* main.go:160-217
Join(c, client, clientMsg, rest) ==
    IF clientMsg.sessionID \notin DOMAIN sessions
    THEN Reject(c, clientMsg, "Error: Session not found", {})
    ELSE LET o == sessions[clientMsg.sessionID]
             session == objs[o]
         IN  IF SessionFull(session)
             THEN Reject(c, clientMsg, "Error: Session is full", session.Clients)
             ELSE IF c \in session.Banned
             THEN Reject(c, clientMsg, "Error: You are banned from this session", session.Clients)
             ELSE \E ord \in Orderings(session.Clients) :
                    LET ws == JoinWrites(c, client, session, ord)
                    IN  /\ objs' = [objs EXCEPT ![o].Clients = @ \cup {c}]
                        /\ clients' = Extend(clients, c, [client EXCEPT !.session = o])
                        /\ down' = Deliver(ws)
                        /\ pc' = [pc EXCEPT ![c] = "relay"]
                        /\ up' = [up EXCEPT ![c] = rest]
                        /\ last' = Step("join", c, clientMsg, ws, session.Clients)
                        /\ UNCHANGED <<sessions, open, relayed>>

HandleConnection(c, lost) ==
    /\ pc[c] = "accepted"
    /\ up[c] # <<>>
    /\ lost \in 0..(Len(up[c]) - 1)
    /\ LET clientMsg == Head(up[c])
           client == [id |-> c, nickname |-> clientMsg.nickname,
                      publicKey |-> UnJsonBytes(clientMsg.publicKey), session |-> 0]
           rest == SubSeq(up[c], 2 + lost, Len(up[c]))
       IN  CASE clientMsg.command = "CREATE" -> Create(c, client, clientMsg, rest)
             [] clientMsg.command = "JOIN" -> Join(c, client, clientMsg, rest)
             [] OTHER -> Reject(c, clientMsg, "Error: Unknown command", {})
    /\ UNCHANGED <<budget, nsent, model, peer, wire, call, locks>>

(***************************************************************************)
(* The relay: relayData (main.go:229-296), one step per line read.         *)
(***************************************************************************)
(***************************************************************************)
(* encoding/json decodes a JSON number into an interface{} as a float64    *)
(* and encodes a float64 that is a whole number below 1e21 with all its    *)
(* digits.  A whole number is its binary digits, most significant first.   *)
(***************************************************************************)
\* the significand of a float64, the hidden bit included
MantissaBits == 53

Zeros(n) == [i \in 1..n |-> 0]

\* bits + 1
Inc(bits) ==
    LET zs == {i \in 1..Len(bits) : bits[i] = 0}
    IN  IF zs = {} THEN <<1>> \o Zeros(Len(bits))
        ELSE LET j == CHOOSE i \in zs : \A k \in zs : k <= i
             IN  SubSeq(bits, 1, j - 1) \o <<1>> \o Zeros(Len(bits) - j)

\* strconv.ParseFloat(s, 64) of a whole number: the nearest float64, ties
\* to the even significand
Float64(bits) ==
    IF Len(bits) <= MantissaBits THEN bits
    ELSE LET keep == SubSeq(bits, 1, MantissaBits)
             rest == SubSeq(bits, MantissaBits + 1, Len(bits))
             sticky == \E i \in 2..Len(rest) : rest[i] = 1
             up1 == rest[1] = 1 /\ (sticky \/ keep[MantissaBits] = 1)
         IN  (IF up1 THEN Inc(keep) ELSE keep) \o Zeros(Len(rest))

\* a relayed line carrying one more field, a number
WithSeq(msg, bits) ==
    [f \in DOMAIN msg \cup {"seq"} |-> IF f = "seq" THEN bits ELSE msg[f]]

\* main.go:257-258: json.Unmarshal into map[string]interface{}
Unmarshal(m) == IF "seq" \in DOMAIN m THEN [m EXCEPT !.seq = Float64(@)] ELSE m

\* main.go:263, mutated to keep a sender the peer supplied
StampUnlessGiven(msg, c) == IF msg.sender # 0 THEN msg ELSE [msg EXCEPT !.sender = c]

\* main.go:263  msg["sender"] = client.id
Stamp(msg, c) == [msg EXCEPT !.sender = c]

\* main.go:274-275: len(outBytes), the marshalled message and its newline;
\* the fixed part stands for the field names, type, sender and recipient
LineLen(msg) == 64 + msg.ciphertext.len

\* main.go:326 with the flag's default (main.go:316)
MaxDataRelayed == 50 * 1024 * 1024

\* main.go:284-285, mutated to write to the sender too
BroadcastTargetsAll(session, c) == session.Clients

\* main.go:284-285
BroadcastTargets(session, c) == session.Clients \ {c}

\* main.go:265-294, mutated: the recipient is looked up among the clients
\* of every session
RoutesAnySession(msg, c, session) ==
    IF msg.type \in DirectedTypes
    THEN IF msg.recipient # 0 /\ \E o \in DOMAIN objs : msg.recipient \in objs[o].Clients
         THEN {msg.recipient} ELSE {}
    ELSE BroadcastTargets(session, c)

\* main.go:265-294: the connections the message is written to
Routes(msg, c, session) ==
    IF msg.type \in DirectedTypes
    THEN IF msg.recipient # 0 /\ msg.recipient \in session.Clients
         THEN {msg.recipient} ELSE {}
    ELSE BroadcastTargets(session, c)

RelayData(c) ==
    /\ pc[c] = "relay"
    /\ up[c] # <<>>
    /\ LET m == Head(up[c])
           session == objs[clients[c].session]
           msg == Stamp(Unmarshal(m), c)
           ws == [d \in Routes(msg, c, session) |-> << msg >>]
       IN  /\ down' = Deliver(ws)
           /\ last' = Step("relay", c, m, ws, session.Clients)
           /\ relayed' = [relayed EXCEPT ![clients[c].session] =
                            @ + LineLen(msg) * Cardinality({d \in DOMAIN ws : open[d]})]
    /\ up' = [up EXCEPT ![c] = Tail(@)]
    /\ UNCHANGED <<sessions, objs, clients, pc, open, budget, nsent, model, peer, wire, call, locks>>

\* main.go:247-255, mutated: no read deadline, the read never returns
RelayEndNever(c) ==
    /\ FALSE
    /\ UNCHANGED <<sessions, objs, clients, pc, open, up, down, last, relayed, budget, nsent, model, peer, wire, call, locks>>

\* main.go:252-255 and 299: the read fails (EOF, error or the 5-minute
\* deadline) once every complete line has been read; the deferred function
\* starts and removeClient closes the connection
RelayEnd(c) ==
    /\ pc[c] = "relay"
    /\ up[c] = <<>>
    /\ pc' = [pc EXCEPT ![c] = "removing"]
    /\ open' = [open EXCEPT ![c] = FALSE]
    /\ last' = Step("end", c, NoLine, <<>>, objs[clients[c].session].Clients)
    /\ UNCHANGED <<sessions, objs, clients, up, down, relayed, budget, nsent, model, peer, wire, call, locks>>

\* main.go:300-313, mutated: the session is deleted whoever remains
RemoveClientAlwaysDeletes(c) ==
    /\ pc[c] = "removing"
    /\ LET o == clients[c].session
           left == objs[o].Clients \ {c}
       IN  /\ objs' = [objs EXCEPT ![o].Clients = left]
           /\ pc' = [pc EXCEPT ![c] = "deleting"]
           /\ last' = [op |-> "remove", conn |-> c, msg |-> NoLine, writes |-> <<>>,
                       members |-> objs[o].Clients, ok |-> {}]
    /\ UNCHANGED <<sessions, clients, open, up, down, relayed, budget, nsent, model, peer, wire, call, locks>>

\* main.go:300-313, mutated: the leaver stays in the member map
RemoveClientKeeps(c) ==
    /\ pc[c] = "removing"
    /\ objs' = objs
    /\ pc' = [pc EXCEPT ![c] = "notifying"]
    /\ last' = [op |-> "remove", conn |-> c, msg |-> NoLine, writes |-> <<>>,
                members |-> objs[clients[c].session].Clients, ok |-> {}]
    /\ UNCHANGED <<sessions, clients, open, up, down, relayed, budget, nsent, model, peer, wire, call, locks>>

\* main.go:300-305/311: under the session mutex
RemoveClient(c) ==
    /\ pc[c] = "removing"
    /\ LET o == clients[c].session
           left == objs[o].Clients \ {c}
       IN  /\ objs' = [objs EXCEPT ![o].Clients = left]
           /\ pc' = [pc EXCEPT ![c] = IF left = {} THEN "deleting" ELSE "notifying"]
           /\ last' = Step("remove", c, NoLine, <<>>, objs[o].Clients)
    /\ UNCHANGED <<sessions, clients, open, up, down, relayed, budget, nsent, model, peer, wire, call, locks>>

\* main.go:306-309: under the registry mutex, after the session mutex was
\* released
RemoveSession(c) ==
    /\ pc[c] = "deleting"
    /\ sessions' = Without(sessions, objs[clients[c].session].ID)
    /\ pc' = [pc EXCEPT ![c] = "notifying"]
    /\ last' = Step("delete", c, NoLine, <<>>, objs[clients[c].session].Clients)
    /\ UNCHANGED <<objs, clients, open, up, down, relayed, budget, nsent, model, peer, wire, call, locks>>

\* main.go:233-242: user_left to whoever is a member now
NotifyLeft(c) ==
    /\ pc[c] = "notifying"
    /\ LET session == objs[clients[c].session]
           ws == [d \in session.Clients |-> << UserLeft(c) >>]
       IN  /\ down' = Deliver(ws)
           /\ last' = Step("left", c, NoLine, ws, session.Clients)
    /\ pc' = [pc EXCEPT ![c] = "done"]
    /\ UNCHANGED <<sessions, objs, clients, open, up, relayed, budget, nsent, model, peer, wire, call, locks>>

(***************************************************************************)
(* The relay serving arbitrary peers.                                      *)
(***************************************************************************)
(***************************************************************************)
(* The multi-party client (internal/ui/model.go, internal/network).  Init  *)
(* dials, writes the opening command and reads lines until the relay's     *)
(* acknowledgement; ListenForMessages then reads the connection through a  *)
(* reader of its own and hands each line to Update.  The listener's send   *)
(* and Update's handling of it are one step here: the program's message    *)
(* queue keeps their order.                                                *)
(***************************************************************************)
\* protocol.FileMetadata (protocol.go:19-24); names and paths are their bytes
Meta(FileName, FileSize, OriginalPath) ==
    [FileName |-> FileName, FileSize |-> FileSize, OriginalPath |-> OriginalPath]

\* protocol.FileMetadata{}
NoMeta == Meta(<<>>, 0, <<>>)

\* the line types of a file transfer (network.go:49-70)
FileTypes == {"file_offer", "file_accept", "file_reject", "file_chunk", "file_done"}

\* NewModel (model.go:133-157)
NewModel(c) ==
    [stage |-> "init", SessionID |-> "", sharedSecrets |-> <<>>, fed |-> <<>>,
     Participants |-> <<>>,
     Status |-> "Connecting", IsConnected |-> FALSE,
     IsTransferring |-> FALSE, IsReceiving |-> FALSE, IsAwaitingAcceptance |-> FALSE,
     PendingOffer |-> NoMeta, FileOfferSenderID |-> 0, ReceivingFile |-> <<>>,
     disk |-> <<>>, log |-> <<>>, key |-> ""]

\* Init, model.go:161-193: Dial, then the opening command is written
Dial(cmd, sid) ==
    /\ budget > 0
    /\ \A d \in Conns : pc[d] # "accepted"
    /\ LET c == Cardinality(Conns) + 1
       IN  /\ pc' = Extend(pc, c, "accepted")
           /\ open' = Extend(open, c, TRUE)
           /\ up' = Extend(up, c, << Opening(cmd, sid, CHOOSE n \in Nicknames : TRUE,
                                             PublicKey(c)) >>)
           /\ down' = Extend(down, c, <<>>)
           /\ model' = Extend(model, c, NewModel(c))
    /\ budget' = budget - 1
    /\ UNCHANGED <<sessions, objs, clients, last, relayed, nsent, peer, wire, call, locks>>

\* the replies strings.HasPrefix(response, "Error:") matches
ErrorReplies ==
    {"Error: Session ID already exists", "Error: Session not found",
     "Error: Session is full", "Error: You are banned from this session",
     "Error: Unknown command"}

\* Init, model.go:195-226: one turn of the read loop.  A line that is
\* neither the acknowledgement nor an error is dropped.  When the loop
\* ends, `lost` further lines sit in its bufio.Reader and are never read.
InitRead(c, lost) ==
    /\ c \in DOMAIN model
    /\ model[c].stage = "init"
    /\ down[c] # <<>>
    /\ lost \in 0..(Len(down[c]) - 1)
    /\ LET response == Head(down[c])
       IN  IF response.kind = "plain" /\ response.text = "Joined session: "
           THEN /\ model' = [model EXCEPT ![c].stage = "listening",
                                          ![c].Status = "CONNECTING",
                                          ![c].IsConnected = TRUE]
                /\ down' = [down EXCEPT ![c] = SubSeq(@, 2 + lost, Len(@))]
           ELSE IF response.kind = "plain" /\ response.text \in ErrorReplies
           THEN /\ model' = [model EXCEPT ![c].stage = "quit"]
                /\ down' = [down EXCEPT ![c] = <<>>]
           ELSE IF response.kind = "json" /\ response.type = "session_created"
           THEN /\ model' = [model EXCEPT ![c].stage = "listening",
                                          ![c].Status = "CONNECTING",
                                          ![c].IsConnected = TRUE,
                                          ![c].SessionID = response.sessionID]
                /\ down' = [down EXCEPT ![c] = SubSeq(@, 2 + lost, Len(@))]
           ELSE /\ lost = 0
                /\ down' = [down EXCEPT ![c] = Tail(@)]
                /\ UNCHANGED model
    /\ UNCHANGED <<sessions, objs, clients, pc, open, up, last, relayed, budget, nsent, peer, wire, call, locks>>

\* network.go:40,44: []byte(msg["publicKey"].(string)), the characters of
\* the JSON string as they stand
KeyField(j) == j.str

\* Update, model.go:373-387 and 396-409
TakeKey(m, c, line) ==
    LET publicKey == CopyKey(KeyField(line.publicKey))
        sharedSecret == ComputeSharedSecret(CopyKey(PrivateKey(c)), publicKey)
    IN  [m EXCEPT !.Participants = Extend(@, line.userID, line.nickname),
                  !.Status = "CONNECTED",
                  !.sharedSecrets = Extend(@, line.userID, sharedSecret),
                  !.fed = Extend(@, line.userID, publicKey)]

\* Update, model.go:389-393
DropKey(m, userID) ==
    [m EXCEPT !.Participants = Without(@, userID),
              !.sharedSecrets = Without(@, userID),
              !.fed = Without(@, userID)]

\* ListenForMessages (network.go:18-75) reads one line; Update handles it.
\* The lines of a file transfer are taken by ListenFile.
Listen(c) ==
    /\ c \in DOMAIN model
    /\ model[c].stage = "listening"
    /\ down[c] # <<>>
    /\ Head(down[c]).kind = "json" => Head(down[c]).type \notin FileTypes
    /\ LET line == Head(down[c])
       IN  model' = [model EXCEPT ![c] =
              IF line.kind # "json" THEN [@ EXCEPT !.stage = "quit"]
              ELSE IF line.type \in {"user_joined", "public_key"}
              THEN IF line.publicKey.isNull THEN [@ EXCEPT !.stage = "crashed"]
                   ELSE TakeKey(@, c, line)
              ELSE IF line.type = "user_left" THEN DropKey(@, line.userID)
              ELSE @]
    /\ down' = [down EXCEPT ![c] = Tail(@)]
    /\ UNCHANGED <<sessions, objs, clients, pc, open, up, last, relayed, budget, nsent, peer, wire, call, locks>>

\* Update, model.go:314-318: the user quits and the connection is closed
Quit(c) ==
    /\ c \in DOMAIN model
    /\ model[c].stage = "listening"
    /\ model' = [model EXCEPT ![c].stage = "quit"]
    /\ UNCHANGED <<sessions, objs, clients, pc, open, up, down, last, relayed, budget, nsent, peer, wire, call, locks>>

\* a line a member may have the relay broadcast: the key another member
\* declared, in the form of the relay's own public_key line
KeyGossip(client) ==
    [kind |-> "json", type |-> "public_key", recipient |-> 0, sender |-> 0,
     ciphertext |-> [id |-> "", len |-> 0], userID |-> client.id,
     nickname |-> client.nickname, publicKey |-> JsonBytes(client.publicKey)]

relayVars == <<sessions, objs, clients, pc, open, up, down, last, relayed, budget, nsent, model>>

vars == <<sessions, objs, clients, pc, open, up, down, last, relayed, budget, nsent, model, peer, wire, call, locks>>

RelayInit ==
    /\ sessions = <<>>
    /\ objs = <<>>
    /\ clients = <<>>
    /\ pc = <<>>
    /\ open = <<>>
    /\ up = <<>>
    /\ down = <<>>
    /\ last = Step("none", 0, NoLine, <<>>, {})
    /\ relayed = <<>>
    /\ budget = MaxConns
    /\ nsent = 0
    /\ model = <<>>
    /\ peer = <<>>
    /\ wire = <<>>
    /\ call = NoCall
    /\ locks = NoLocks

\* the public key a raw peer declares: every second one declares none, as
\* the relay's tests do
KeysIn(c) == IF c % 2 = 0 THEN {<<>>} ELSE {PublicKey(c)}

\* the lines a raw peer sends: directed ones to anybody or nobody, with a
\* forged sender or none, and one type that is broadcast
PeerLines ==
    {RelayMsg("message", r, s, Hello) : r \in 0..MaxConns, s \in {0, 1}}
    \cup {RelayMsg("file_done", r, 0, Hello) : r \in 0..MaxConns}
    \cup {RelayMsg("nickname", 0, s, Hello) : s \in {0, 1}}
    \cup {RelayMsg("file_chunk", r, 0, Huge) : r \in 1..MaxConns}

RelayNext ==
    \/ \E cmd \in Commands, sid \in SessionIDsIn, key \in KeysIn(Cardinality(Conns) + 1) :
          Connect(cmd, sid, key)
    \/ \E c \in {d \in Conns : pc[d] = "relay"}, m \in PeerLines : PeerSend(c, m)
    \/ \E c \in Conns, lost \in 0..MaxLines : HandleConnection(c, lost)
    \/ \E c \in Conns : RelayData(c)
    \/ \E c \in Conns : RelayEnd(c)
    \/ \E c \in Conns : RemoveClient(c)
    \/ \E c \in Conns : RemoveSession(c)
    \/ \E c \in Conns : NotifyLeft(c)

SpecRelay == RelayInit /\ [][RelayNext]_vars

(***************************************************************************)
(* The relay with a session one short of the member cap: the state after   *)
(* one CREATE of "s1" and MaxMembers - 2 JOINs by raw peers that declared  *)
(* no key.  The connections numbered from MaxMembers - 1 on are the ones   *)
(* that come, join and leave.                                              *)
(***************************************************************************)
CapInit ==
    LET P == 1..(MaxMembers - 1)
    IN  /\ sessions = [sid \in {"s1"} |-> 1]
        /\ objs = [o \in {1} |-> [ID |-> "s1", OwnerID |-> 1, Clients |-> P, Banned |-> {}]]
        /\ clients = [c \in P |-> [id |-> c, nickname |-> "neo", publicKey |-> <<>>,
                                    session |-> 1]]
        /\ pc = [c \in P |-> "relay"]
        /\ open = [c \in P |-> TRUE]
        /\ up = [c \in P |-> <<>>]
        /\ down = <<>>
        /\ last = [op |-> "none", conn |-> 0, msg |-> NoLine, writes |-> <<>>,
                   members |-> {}, ok |-> {}]
        /\ relayed = [o \in {1} |-> 0]
        /\ budget = MaxConns
        /\ nsent = 0
        /\ model = <<>>
        /\ peer = <<>>
        /\ wire = <<>>
        /\ call = NoCall
        /\ locks = NoLocks
    /\ model = <<>>

Leavers == {c \in Conns : c >= MaxMembers}

CapNext ==
    \/ \E cmd \in {"CREATE", "JOIN"}, sid \in {"", "s1"} : Connect(cmd, sid, <<>>)
    \/ \E c \in Conns : HandleConnection(c, 0)
    \/ \E c \in Leavers : RelayEnd(c)
    \/ \E c \in Leavers : RemoveClient(c)
    \/ \E c \in Leavers : RemoveSession(c)
    \/ \E c \in Leavers : NotifyLeft(c)

SpecCap == CapInit /\ [][CapNext]_vars

\* C9: no session ever has more than 256 members, and a JOIN that finds 256
\* members is answered "Error: Session is full", has its connection closed
\* and leaves the member set as it was.
C9_MemberCap ==
    /\ \A o \in DOMAIN objs : Cardinality(objs[o].Clients) <= 256
    /\ (last.op \in {"join", "reject"} /\ Cardinality(last.members) >= 256)
       => /\ last.op = "reject"
          /\ last.writes = (last.conn :> << Plain("Error: Session is full", "") >>)
          /\ ~open[last.conn]
          /\ pc[last.conn] = "rejected"
          /\ last.conn \notin DOMAIN clients
          /\ objs[sessions[last.msg.sessionID]].Clients = last.members

\* C9 witness: a JOIN was turned away from a session of 256
C9_Witness ==
    /\ last.op = "reject"
    /\ last.msg.command = "JOIN"
    /\ Cardinality(last.members) = 256

(***************************************************************************)
(* The relay with client programs behind its connections, and peers that   *)
(* speak the line protocol themselves.                                     *)
(***************************************************************************)
Gone(c) == c \in DOMAIN model => model[c].stage \in {"quit", "crashed"}

ChatNext ==
    \/ \E cmd \in {"CREATE", "JOIN"}, sid \in {"", "s1"} : Dial(cmd, sid)
    \/ Connect("JOIN", "s1", PublicKey(Cardinality(Conns) + 1))
    \/ \E c \in Conns \ DOMAIN model : \E d \in DOMAIN clients :
          /\ pc[c] = "relay"
          /\ PeerSend(c, KeyGossip(clients[d]))
    \/ \E c \in Conns : HandleConnection(c, 0)
    \/ \E c \in Conns : RelayData(c)
    \/ \E c \in Conns : \E lost \in 0..MaxLines : InitRead(c, lost)
    \/ \E c \in Conns : Listen(c)
    \/ \E c \in Conns : Quit(c)
    \/ \E c \in Conns : Gone(c) /\ RelayEnd(c)
    \/ \E c \in Conns : RemoveClient(c)
    \/ \E c \in Conns : RemoveSession(c)
    \/ \E c \in Conns : NotifyLeft(c)

SpecChat == RelayInit /\ [][ChatNext]_vars

\* the client programs of two members of one session, both past the
\* relay's acknowledgement and with every line sent to them handled
Settled(a, b) ==
    /\ a # b
    /\ a \in DOMAIN model /\ b \in DOMAIN model
    /\ a \in DOMAIN clients /\ b \in DOMAIN clients
    /\ clients[a].session = clients[b].session
    /\ {a, b} \subseteq objs[clients[a].session].Clients
    /\ model[a].stage = "listening" /\ model[b].stage = "listening"
    /\ down[a] = <<>> /\ down[b] = <<>>

\* C4: once a JOIN is acknowledged and every notification has been handled,
\* any two members of the session hold a shared-secret entry for each other.
C4_KeyDistribution ==
    \A a, b \in DOMAIN model :
        Settled(a, b) => /\ b \in DOMAIN model[a].sharedSecrets
                         /\ a \in DOMAIN model[b].sharedSecrets

\* C5: two members holding secrets for each other fed DH the key the other
\* declared in its opening command, and hold the same secret.
C5_KeyAgreement ==
    \A a, b \in DOMAIN model :
        (/\ a # b
         /\ a \in DOMAIN clients /\ b \in DOMAIN clients
         /\ b \in DOMAIN model[a].sharedSecrets
         /\ a \in DOMAIN model[b].sharedSecrets)
        => /\ model[a].fed[b] = PublicKey(b)
           /\ model[b].fed[a] = PublicKey(a)
           /\ model[a].sharedSecrets[b] = model[b].sharedSecrets[a]

(***************************************************************************)
(* The two-party client: framing (internal/protocol), AES-GCM and the key  *)
(* exchange (internal/crypto), ListenForMessages and SendData              *)
(* (internal/network), and the Update cases that use them.                 *)
(***************************************************************************)
\* protocol.go:8-15
TypeNickname == 0
TypeText == 1
TypeFileOffer == 2
TypeFileAccept == 3
TypeFileReject == 4
TypeFileChunk == 5
TypeFileDone == 6
TypePublicKeyExchange == 10

FrameTypes ==
    {TypeNickname, TypeText, TypeFileOffer, TypeFileAccept, TypeFileReject,
     TypeFileChunk, TypeFileDone, TypePublicKeyExchange}

\* crypto.go:19
MaxMessageSize == 10 * 1024 * 1024

\* gcm.NonceSize() and gcm.Overhead() of the standard GCM
NonceSize == 12
TagSize == 16

\* binary.BigEndian.PutUint32(h, uint32(n)), for the lengths below 2^31 that
\* a sequence here can have
BE32(n) == << n \div 16777216, (n \div 65536) % 256, (n \div 256) % 256, n % 256 >>

\* binary.Read(reader, binary.BigEndian, &length)
UnBE32(b) == b[1] * 16777216 + b[2] * 65536 + b[3] * 256 + b[4]

\* SendData, part_000:122-127: type, length, payload
Frame(msgType, payload) == << msgType >> \o BE32(Len(payload)) \o payload

RECURSIVE SumBytes(_)
SumBytes(b) == IF b = <<>> THEN 0 ELSE (Head(b) + SumBytes(Tail(b))) % 256

\* aes.NewCipher accepts keys of 16, 24 or 32 bytes
ValidKey(key) == Len(key) \in {16, 24, 32}

(***************************************************************************)
(* AES-GCM, kept to what the callers rely on: the sealed text is the nonce,*)
(* the plaintext masked by a stream drawn from key and nonce, and a tag    *)
(* over key, nonce and masked text; opening recomputes the tag.            *)
(***************************************************************************)
KeyStream(key, nonce, i) ==
    (key[((i - 1) % Len(key)) + 1] + 3 * nonce[((i - 1) % NonceSize) + 1] + i) % 256

Mask(key, nonce, text, sign) ==
    [i \in 1..Len(text) |-> (text[i] + sign * KeyStream(key, nonce, i) + 256) % 256]

Tag(key, nonce, masked) ==
    LET sum == SumBytes(masked) + Len(masked) + 1
    IN  [j \in 1..TagSize |->
            (3 * key[((j - 1) % Len(key)) + 1]
             + (IF Len(key) > TagSize THEN 5 * key[((j + TagSize - 1) % Len(key)) + 1]
                ELSE 0)
             + nonce[((j - 1) % NonceSize) + 1]
             + j * sum) % 256]

\* gcm.Seal(nil, nonce, plaintext, nil): the sealed text without the nonce
SealBare(key, nonce, plaintext) ==
    LET masked == Mask(key, nonce, plaintext, 1)
    IN  masked \o Tag(key, nonce, masked)

\* gcm.Seal(nonce, nonce, plaintext, nil)
Seal(key, nonce, plaintext) ==
    LET masked == Mask(key, nonce, plaintext, 1)
    IN  nonce \o masked \o Tag(key, nonce, masked)

\* crypto.Encrypt, with the nonce rand.Reader supplied
Encrypt(plaintext, key, nonce) ==
    IF ~ValidKey(key) THEN [err |-> TRUE, out |-> <<>>]
    ELSE [err |-> FALSE, out |-> Seal(key, nonce, plaintext)]

\* crypto.Decrypt
Decrypt(ciphertext, key) ==
    IF ~ValidKey(key) THEN [err |-> TRUE, out |-> <<>>]
    ELSE IF Len(ciphertext) < NonceSize THEN [err |-> TRUE, out |-> <<>>]
    ELSE IF Len(ciphertext) < NonceSize + TagSize THEN [err |-> TRUE, out |-> <<>>]
    ELSE LET nonce == SubSeq(ciphertext, 1, NonceSize)
             masked == SubSeq(ciphertext, NonceSize + 1, Len(ciphertext) - TagSize)
             tag == SubSeq(ciphertext, Len(ciphertext) - TagSize + 1, Len(ciphertext))
         IN  IF tag # Tag(key, nonce, masked) THEN [err |-> TRUE, out |-> <<>>]
             ELSE [err |-> FALSE, out |-> Mask(key, nonce, masked, -1)]

\* curve25519.X25519: the product, or an error when it is the all-zero value
X25519(privateKey, theirPublicKey) ==
    LET out == ComputeSharedSecret(privateKey, theirPublicKey)
    IN  IF \A i \in 1..KeySize : out[i] = 0 THEN [err |-> TRUE, out |-> <<>>]
        ELSE [err |-> FALSE, out |-> out]

\* SendData, part_000:105-131, mutated to frame the data as it stands
SendDataPlain(sharedKey, msgType, data, nonce) ==
    IF msgType # TypePublicKeyExchange /\ sharedKey = <<>>
    THEN [err |-> TRUE, frame |-> <<>>]
    ELSE [err |-> FALSE, frame |-> Frame(msgType, data)]

\* SendData, part_000:105-131: the error it returns and the bytes it writes;
\* a nil key is the empty sequence
SendData(sharedKey, msgType, data, nonce) ==
    IF msgType = TypePublicKeyExchange
    THEN [err |-> FALSE, frame |-> Frame(msgType, data)]
    ELSE IF sharedKey = <<>>
    THEN [err |-> TRUE, frame |-> <<>>]
    ELSE LET e == Encrypt(data, sharedKey, nonce)
         IN  IF e.err THEN [err |-> TRUE, frame |-> <<>>]
             ELSE [err |-> FALSE, frame |-> Frame(msgType, e.out)]

\* readTLVFromConn, crypto.go:59-91, on the bytes that have arrived:
\* "wait" while the frame is incomplete
ReadTLV(b) ==
    IF Len(b) < 5 THEN [st |-> "wait"]
    ELSE LET msgType == b[1]
             length == UnBE32(SubSeq(b, 2, 5))
         IN  IF msgType = TypePublicKeyExchange /\ length # KeySize THEN [st |-> "err"]
             ELSE IF msgType # TypePublicKeyExchange /\ length > MaxMessageSize
             THEN [st |-> "err"]
             ELSE IF msgType # TypePublicKeyExchange /\ length = 0
                     /\ msgType # TypeFileReject
             THEN [st |-> "err"]
             ELSE IF Len(b) < 5 + length THEN [st |-> "wait"]
             ELSE [st |-> "ok", msgType |-> msgType,
                   payload |-> SubSeq(b, 6, 5 + length),
                   rest |-> SubSeq(b, 6 + length, Len(b))]

\* ListenForMessages, part_000:41-63: type, length and body, no checks
ReadFrame(b) ==
    IF Len(b) < 5 THEN [st |-> "wait"]
    ELSE LET length == UnBE32(SubSeq(b, 2, 5))
         IN  IF Len(b) < 5 + length THEN [st |-> "wait"]
             ELSE [st |-> "ok", msgType |-> b[1],
                   payload |-> SubSeq(b, 6, 5 + length),
                   rest |-> SubSeq(b, 6 + length, Len(b))]

Sides == {"initiator", "responder"}

Other(s) == IF s = "initiator" THEN "responder" ELSE "initiator"

\* initial_model.go:655  isInitiator = (m.Command == "CREATE")
IsInitiator(s) == s = "initiator"

\* PerformKeyExchange, crypto.go:108, mutated: both sides read first
FirstStepRead(isInitiator) == "read"

\* PerformKeyExchange, crypto.go:108 and 133: the initiator writes first,
\* the responder reads first
FirstStep(isInitiator) == IF isInitiator THEN "write" ELSE "read"

\* the step after the first: the other of the two, then the computation
SecondStep(isInitiator) == IF isInitiator THEN "read" ELSE "write"

AfterStep(isInitiator, step) ==
    IF step = FirstStep(isInitiator) THEN SecondStep(isInitiator) ELSE "compute"

Bytes(text) ==
    CASE text = "neo" -> << 110, 101, 111 >>
      [] text = "hi" -> << 104, 105 >>
      [] OTHER -> <<>>

Nonces ==
    {[i \in 1..NonceSize |-> i], [i \in 1..NonceSize |-> (7 * i + 100) % 256]}

NoSend == [side |-> "", msgType |-> 0, data |-> <<>>, key |-> <<>>, err |-> FALSE,
           frame |-> <<>>]

\* the client on side s once it holds its connection, with the scalar
\* rand.Read gave PerformKeyExchange (crypto.go:96-100)
NewPeer(s, privateKey) ==
    [pc |-> FirstStep(IsInitiator(s)),
     privateKey |-> privateKey,
     publicKey |-> ScalarBaseMult(privateKey),
     theirPublicKey |-> <<>>,
     sharedKey |-> <<>>,          \* ListenForMessages' sharedKey
     queued |-> FALSE,            \* a SharedKeyMsg is in the program's queue
     SharedKey |-> <<>>,          \* Model.SharedKey
     PeerNickname |-> <<>>,
     IsReady |-> FALSE,
     Messages |-> <<>>,
     Err |-> FALSE]

IdleWire ==
    [to |-> [s \in Sides |-> <<>>], log |-> <<>>, last |-> NoSend, sends |-> 0]

\* conn.Write(bytes) by side s
WireWrite(w, s, msgType, bytes) ==
    IF bytes = <<>> THEN w
    ELSE [w EXCEPT !.to[Other(s)] = @ \o bytes,
                   !.log = Append(@, [from |-> s, msgType |-> msgType,
                                      payload |-> SubSeq(bytes, 6, Len(bytes))])]

\* PerformKeyExchange, crypto.go:110-119 and 147-155
KxWrite(s) ==
    /\ peer[s].pc = "write"
    /\ wire' = WireWrite(wire, s, TypePublicKeyExchange,
                         Frame(TypePublicKeyExchange, peer[s].publicKey))
    /\ peer' = [peer EXCEPT ![s].pc = AfterStep(IsInitiator(s), "write")]
    /\ UNCHANGED <<relayVars, call, locks>>

\* PerformKeyExchange, crypto.go:121-131 and 134-145.  The call reads
\* through a bufio.Reader of its own (line 105), which takes what has
\* arrived: bytes after the frame go with it when the call returns.
KxRead(s, lost) ==
    /\ peer[s].pc = "read"
    /\ LET r == ReadTLV(wire.to[s])
       IN  /\ r.st # "wait"
           /\ IF r.st = "ok" /\ r.msgType = TypePublicKeyExchange
                 /\ Len(r.payload) = KeySize
              THEN /\ lost \in {0, Len(r.rest)}
                   /\ peer' = [peer EXCEPT ![s].theirPublicKey = CopyKey(r.payload),
                                           ![s].pc = AfterStep(IsInitiator(s), "read")]
                   /\ wire' = [wire EXCEPT !.to[s] = SubSeq(r.rest, lost + 1, Len(r.rest))]
              ELSE /\ lost = 0
                   /\ peer' = [peer EXCEPT ![s].pc = "failed", ![s].Err = TRUE]
                   /\ wire' = [wire EXCEPT !.to[s] = <<>>]
    /\ UNCHANGED <<relayVars, call, locks>>

\* PerformKeyExchange, crypto.go:161-166, and ListenForMessages,
\* part_000:28-35: the call returns and the key is sent to the program
KxCompute(s) ==
    /\ peer[s].pc = "compute"
    /\ LET k == X25519(peer[s].privateKey, peer[s].theirPublicKey)
       IN  peer' = IF k.err
                   THEN [peer EXCEPT ![s].pc = "failed", ![s].Err = TRUE]
                   ELSE [peer EXCEPT ![s].pc = "listen", ![s].sharedKey = k.out,
                                     ![s].queued = TRUE]
    /\ UNCHANGED <<relayVars, wire, call, locks>>

\* one call of SendData by side s and what it leaves on the connection
Sent(w, s, key, msgType, data, nonce) ==
    LET r == SendData(key, msgType, data, nonce)
    IN  [WireWrite(w, s, msgType, r.frame) EXCEPT
            !.last = [side |-> s, msgType |-> msgType, data |-> data, key |-> key,
                      err |-> r.err, frame |-> r.frame]]

\* Update, initial_model.go:657-666: the key is stored, the nickname sent
SharedKeyMsg(s, nonce) ==
    /\ peer[s].queued
    /\ ~peer[s].Err
    /\ LET w == Sent(wire, s, peer[s].sharedKey, TypeNickname, Bytes("neo"), nonce)
       IN  /\ wire' = w
           /\ peer' = [peer EXCEPT ![s].queued = FALSE,
                                   ![s].SharedKey = peer[s].sharedKey,
                                   ![s].Err = w.last.err]
    /\ UNCHANGED <<relayVars, call, locks>>

\* Update, initial_model.go:538-577: a line of text is submitted
SubmitInput(s, text, nonce) ==
    /\ peer[s].IsReady
    /\ ~peer[s].Err
    /\ wire.sends < MaxSends
    /\ LET w == Sent(wire, s, peer[s].SharedKey, TypeText, Bytes(text), nonce)
       IN  /\ wire' = [w EXCEPT !.sends = @ + 1]
           /\ peer' = [peer EXCEPT ![s].Err = w.last.err]
    /\ UNCHANGED <<relayVars, call, locks>>

\* ListenForMessages, part_000:40-100, one turn of the loop, and the
\* Update case of the message it sends (initial_model.go:683-700)
Receive(s) ==
    /\ peer[s].pc = "listen"
    /\ ~peer[s].Err
    /\ LET r == ReadFrame(wire.to[s])
       IN  /\ r.st = "ok"
           /\ wire' = [wire EXCEPT !.to[s] = r.rest]
           /\ LET d == Decrypt(r.payload, peer[s].sharedKey)
              IN  peer' =
                    IF d.err THEN [peer EXCEPT ![s].Err = TRUE]
                    ELSE IF r.msgType = TypeNickname
                    THEN [peer EXCEPT ![s].PeerNickname = d.out, ![s].IsReady = TRUE]
                    ELSE IF r.msgType = TypeText
                    THEN [peer EXCEPT ![s].Messages = Append(@, d.out)]
                    ELSE IF r.msgType \in {TypeFileOffer, TypeFileAccept, TypeFileReject,
                                           TypeFileChunk, TypeFileDone}
                    THEN peer
                    ELSE [peer EXCEPT ![s].Err = TRUE]
    /\ UNCHANGED <<relayVars, call, locks>>

\* the scalars rand.Read may give each side
Scalars(s) ==
    IF IsInitiator(s) THEN {PrivateKey(1), PrivateKey(3)}
    ELSE {PrivateKey(2), PrivateKey(3)}

HSInit ==
    /\ sessions = <<>> /\ objs = <<>> /\ clients = <<>> /\ pc = <<>>
    /\ open = <<>> /\ up = <<>> /\ down = <<>> /\ relayed = <<>>
    /\ last = [op |-> "none", conn |-> 0, msg |-> NoLine, writes |-> <<>>,
               members |-> {}, ok |-> {}]
    /\ budget = 0
    /\ nsent = 0
    /\ model = <<>>
    /\ \E ki \in Scalars("initiator"), kr \in Scalars("responder") :
          peer = [s \in Sides |-> NewPeer(s, IF IsInitiator(s) THEN ki ELSE kr)]
    /\ wire = IdleWire
    /\ call = NoCall
    /\ locks = NoLocks

KxStep ==
    \E s \in Sides : KxWrite(s) \/ (\E lost \in {0} : KxRead(s, lost)) \/ KxCompute(s)

HSNext ==
    \/ \E s \in Sides : KxWrite(s)
    \/ \E s \in Sides : \E lost \in 0..Len(wire.to[s]) : KxRead(s, lost)
    \/ \E s \in Sides : KxCompute(s)
    \/ \E s \in Sides : \E nonce \in Nonces : SharedKeyMsg(s, nonce)
    \/ \E s \in Sides : \E nonce \in Nonces : SubmitInput(s, "hi", nonce)
    \/ \E s \in Sides : Receive(s)

\* each side's goroutine keeps running until its call returns
SpecHS == HSInit /\ [][HSNext]_vars /\ WF_vars(KxStep)

(***************************************************************************)
(* SendData on its own: every key a caller may hold, every frame type.     *)
(***************************************************************************)
\* the key both sides derive from the scalars 1 and 2
EstablishedKey == ComputeSharedSecret(PrivateKey(1), PublicKey(2))

\* a caller's key: none, the established one, a 16-byte AES key, and a
\* slice aes.NewCipher refuses
SendKeys ==
    {<<>>, EstablishedKey, SubSeq(EstablishedKey, 1, 16), SubSeq(EstablishedKey, 1, 5)}

SendInit ==
    /\ sessions = <<>> /\ objs = <<>> /\ clients = <<>> /\ pc = <<>>
    /\ open = <<>> /\ up = <<>> /\ down = <<>> /\ relayed = <<>>
    /\ last = [op |-> "none", conn |-> 0, msg |-> NoLine, writes |-> <<>>,
               members |-> {}, ok |-> {}]
    /\ budget = 0
    /\ nsent = 0
    /\ model = <<>>
    /\ \E ki \in SendKeys, kr \in SendKeys :
          peer = [s \in Sides |->
                    [NewPeer(s, PrivateKey(IF IsInitiator(s) THEN 1 ELSE 2))
                        EXCEPT !.pc = "listen",
                               !.SharedKey = IF IsInitiator(s) THEN ki ELSE kr]]
    /\ wire = IdleWire
    /\ call = NoCall
    /\ locks = NoLocks

CallSendData(s, msgType, data, nonce) ==
    /\ wire.sends < MaxSends
    /\ wire' = [Sent(wire, s, peer[s].SharedKey, msgType, data, nonce)
                  EXCEPT !.sends = @ + 1]
    /\ UNCHANGED <<relayVars, peer, call, locks>>

SendNext ==
    \E s \in Sides, msgType \in FrameTypes, data \in {Bytes("hi"), <<>>},
       nonce \in Nonces : CallSendData(s, msgType, data, nonce)

SpecSend == SendInit /\ [][SendNext]_vars

(***************************************************************************)
(* Properties of the two-party client.                                     *)
(***************************************************************************)
\* the KEY_EXCHANGE frames written to the connection, in order
KxFrames == SelectSeq(wire.log, LAMBDA e : e.msgType = TypePublicKeyExchange)

HandshakeDone == \A s \in Sides : peer[s].pc = "listen"

HandshakeSafe ==
    /\ \A s \in Sides : peer[s].pc # "failed"
    /\ Len(KxFrames) <= 2
    /\ \A i \in 1..Len(KxFrames) :
          /\ Len(KxFrames[i].payload) = 32
          /\ KxFrames[i].from = (IF i = 1 THEN "initiator" ELSE "responder")
          /\ KxFrames[i].payload = peer[KxFrames[i].from].publicKey
    /\ HandshakeDone =>
          /\ Len(KxFrames) = 2
          /\ \A s \in Sides :
                /\ peer[s].theirPublicKey = peer[Other(s)].publicKey
                /\ peer[s].sharedKey = peer[Other(s)].sharedKey
                /\ Len(peer[s].sharedKey) = 32

\* C6: with one side the initiator and the other the responder, both calls
\* of PerformKeyExchange return; exactly two KEY_EXCHANGE frames of 32 bytes
\* are written, the initiator's first; each side's peer key is the other's
\* public key and both hold the same shared key.
C6_Handshake == []HandshakeSafe /\ <>HandshakeDone

\* C6 witness: both calls have returned and the two frames have crossed
C6_Witness ==
    /\ HandshakeDone
    /\ Len(KxFrames) = 2
    /\ peer["initiator"].sharedKey = peer["responder"].sharedKey
    /\ peer["initiator"].sharedKey # <<>>

\* C7: a frame SendData writes with a type other than KEY_EXCHANGE carries
\* its data sealed under the caller's shared key; with no shared key
\* SendData returns an error and writes nothing.
C7_NoPlaintext ==
    LET l == wire.last
    IN  (l.side # "" /\ l.msgType # TypePublicKeyExchange) =>
           /\ l.key = peer[l.side].SharedKey
           /\ l.key = <<>> => (l.err /\ l.frame = <<>>)
           /\ l.err => l.frame = <<>>
           /\ ~l.err =>
                 /\ \E nonce \in Nonces :
                       l.frame = Frame(l.msgType, Seal(l.key, nonce, l.data))
                 /\ Decrypt(SubSeq(l.frame, 6, Len(l.frame)), l.key)
                       = [err |-> FALSE, out |-> l.data]
                 /\ wire.log # <<>>
                 /\ wire.log[Len(wire.log)] =
                       [from |-> l.side, msgType |-> l.msgType,
                        payload |-> SubSeq(l.frame, 6, Len(l.frame))]

\* C7 witness: one side has written a sealed text frame, and the other,
\* holding no key, has had its call refused
C7_Witness ==
    /\ \E i \in 1..Len(wire.log) :
          /\ wire.log[i].msgType = TypeText
          /\ Len(wire.log[i].payload) = NonceSize + 2 + TagSize
    /\ wire.last.msgType = TypeText
    /\ wire.last.key = <<>>
    /\ wire.last.err
    /\ wire.last.frame = <<>>

(***************************************************************************)
(* Properties of the relay's routing and admission, under SpecRelay.       *)
(***************************************************************************)
SixTypes == {"message", "file_offer", "file_accept", "file_reject", "file_chunk", "file_done"}

\* C1: a message of one of the six directed types read from member A is
\* written exactly once, to the connection of its recipient and to no other
\* connection, when the recipient is a member of A's session; when the
\* recipient is absent, not a string or not a member, nothing is written
\* and A's relay loop goes on with its connection open.
C1_DirectedRouting ==
    (last.op = "relay" /\ last.msg.type \in SixTypes)
    => /\ IF last.msg.recipient # 0 /\ last.msg.recipient \in last.members
          THEN /\ DOMAIN last.writes = {last.msg.recipient}
               /\ Len(last.writes[last.msg.recipient]) = 1
               /\ last.writes[last.msg.recipient][1].type = last.msg.type
               /\ last.writes[last.msg.recipient][1].recipient = last.msg.recipient
               /\ last.writes[last.msg.recipient][1].ciphertext = last.msg.ciphertext
          ELSE DOMAIN last.writes = {}
       /\ pc[last.conn] = "relay"
       /\ open[last.conn]
       /\ last.conn \in objs[clients[last.conn].session].Clients

\* C1 witness: a directed message reached its recipient in a session of
\* three, with a bystander that was written nothing
C1_Witness ==
    /\ last.op = "relay"
    /\ last.msg.type = "file_done"
    /\ Cardinality(last.members) = 3
    /\ last.msg.recipient \in last.members \ {last.conn}
    /\ DOMAIN last.writes = {last.msg.recipient}

\* C2: a message whose type is not one of the six directed types is written
\* exactly once to every member of the sender's session other than the
\* sender, and not to the sender.
C2_BroadcastRouting ==
    (last.op = "relay" /\ last.msg.type \notin SixTypes)
    => /\ DOMAIN last.writes = last.members \ {last.conn}
       /\ \A d \in DOMAIN last.writes :
            /\ Len(last.writes[d]) = 1
            /\ last.writes[d][1].type = last.msg.type
            /\ last.writes[d][1].ciphertext = last.msg.ciphertext

\* C2 witness: a broadcast in a session of three
C2_Witness ==
    /\ last.op = "relay"
    /\ last.msg.type = "nickname"
    /\ Cardinality(last.members) = 3
    /\ Cardinality(DOMAIN last.writes) = 2

\* C3: every line relayData writes carries as sender the id minted for the
\* connection it was read from, whatever sender the peer put in the line.
C3_SenderStamped ==
    last.op = "relay"
    => \A d \in DOMAIN last.writes :
         \A i \in 1..Len(last.writes[d]) :
            last.writes[d][i].sender = clients[last.conn].id

\* C3 witness: a line with a forged sender was forwarded
C3_Witness ==
    /\ last.op = "relay"
    /\ last.msg.sender # 0
    /\ last.msg.sender # clients[last.conn].id
    /\ DOMAIN last.writes # {}

\* C8: a successful JOIN of N into a session with members P writes one
\* user_joined with N's id, nickname and public key to each member of P,
\* writes to N one public_key object per member of P and then the
\* "Joined session: <id>" line, and leaves the member set P plus N.
C8_JoinNotifications ==
    last.op = "join"
    => LET N == last.conn
           P == last.members
           toN == last.writes[N]
           session == objs[clients[N].session]
       IN  /\ DOMAIN last.writes = P \cup {N}
           /\ N \notin P
           /\ \A m \in P :
                /\ Len(last.writes[m]) = 1
                /\ last.writes[m][1].type = "user_joined"
                /\ last.writes[m][1].userID = N
                /\ last.writes[m][1].nickname = last.msg.nickname
                /\ last.writes[m][1].publicKey = last.msg.publicKey
           /\ Len(toN) = Cardinality(P) + 1
           /\ toN[Len(toN)] = Plain("Joined session: ", session.ID)
           /\ session.ID = last.msg.sessionID
           /\ \A i \in 1..Cardinality(P) : toN[i].type = "public_key"
           /\ \A m \in P :
                Cardinality({i \in 1..Cardinality(P) :
                                /\ toN[i].userID = m
                                /\ toN[i].nickname = clients[m].nickname
                                /\ toN[i].publicKey = JsonBytes(clients[m].publicKey)}) = 1
           /\ session.Clients = P \cup {N}

\* C8 witness: a third member joined a session of two
C8_Witness ==
    /\ last.op = "join"
    /\ Cardinality(last.members) = 2
    /\ ~last.msg.publicKey.isNull

C11_Leave ==
    /\ \A c \in Conns :
          /\ pc[c] \in {"removing", "deleting", "notifying", "done"} => ~open[c]
          /\ pc[c] \in {"deleting", "notifying", "done"}
             => \A o \in DOMAIN objs : c \notin objs[o].Clients
    /\ last.op = "remove"
       => LET o == clients[last.conn].session
          IN  /\ objs[o].Clients = last.members \ {last.conn}
              /\ pc[last.conn] = (IF objs[o].Clients = {} THEN "deleting" ELSE "notifying")
    /\ last.op = "delete"
       => objs[clients[last.conn].session].ID \notin DOMAIN sessions
    /\ (last.op = "reject" /\ last.msg.command = "JOIN"
        /\ last.msg.sessionID \notin DOMAIN sessions)
       => last.writes = (last.conn :> << Plain("Error: Session not found", "") >>)
    /\ last.op = "left"
       => LET o == clients[last.conn].session
          IN  /\ last.writes = [d \in objs[o].Clients |-> << UserLeft(last.conn) >>]
              /\ last.conn \notin objs[o].Clients
              /\ pc[last.conn] = "done"

\* C11 witness: the last member of a session has left and its id is free,
\* after an earlier member's departure had run to its end
C11_Witness ==
    /\ last.op = "delete"
    /\ \E c \in Conns :
          /\ pc[c] = "done"
          /\ c # last.conn
          /\ c \in DOMAIN clients
          /\ clients[c].session = clients[last.conn].session

\* C12: an opening command answered with an "Error:" line closes that
\* connection and leaves the registry and every session as they were; the
\* error line is the only write, and it goes to the refused connection.
C12_RejectChangesNothing ==
    [][\A c \in Conns :
          (pc[c] = "accepted" /\ pc'[c] = "rejected")
          => /\ sessions' = sessions
             /\ objs' = objs
             /\ clients' = clients
             /\ ~open'[c]
             /\ \E t \in ErrorReplies : last'.writes = (c :> << Plain(t, "") >>)
             /\ \A d \in DOMAIN down : d # c => down'[d] = down[d]
             /\ \A d \in Conns \ {c} : open'[d] = open[d] /\ pc'[d] = pc[d]]_vars

\* C12 witness: a CREATE of a registered id was refused while the session
\* had members
C12_Witness ==
    /\ last.op = "reject"
    /\ last.msg.command = "CREATE"
    /\ last.msg.sessionID \in DOMAIN sessions
    /\ objs[sessions[last.msg.sessionID]].Clients # {}
    /\ ~open[last.conn]

\* C13: a CREATE with an empty or unregistered id adds one session to the
\* registry, under the supplied id or a minted one that was not registered,
\* with the creator as only member and owner; the creator is written one
\* session_created with that id and every other session is left as it was.
C13_CreateSuccess ==
    [][\A c \in Conns :
          (pc[c] = "accepted" /\ Head(up[c]).command = "CREATE"
           /\ (Head(up[c]).sessionID = "" \/ Head(up[c]).sessionID \notin DOMAIN sessions)
           /\ pc'[c] # pc[c])
          => LET given == Head(up[c]).sessionID
                 id == IF given = "" THEN objs'[c].ID ELSE given
             IN  /\ pc'[c] = "relay"
                 /\ id \notin DOMAIN sessions
                 /\ id # ""
                 /\ DOMAIN sessions' = DOMAIN sessions \cup {id}
                 /\ \A sid \in DOMAIN sessions : sessions'[sid] = sessions[sid]
                 /\ sessions'[id] = c
                 /\ DOMAIN objs' = DOMAIN objs \cup {c}
                 /\ c \notin DOMAIN objs
                 /\ \A o \in DOMAIN objs : objs'[o] = objs[o]
                 /\ objs'[c].ID = id
                 /\ objs'[c].OwnerID = c
                 /\ objs'[c].Clients = {c}
                 /\ last'.writes = (c :> << SessionCreated(id) >>)
                 /\ open'[c]]_vars

\* C13 witness: a second session was created, under a minted id, next to
\* one created under a supplied id
C13_Witness ==
    /\ last.op = "create"
    /\ last.msg.sessionID = ""
    /\ Cardinality(DOMAIN sessions) = 2
    /\ "s1" \in DOMAIN sessions
    /\ objs[last.conn].Clients = {last.conn}

\* C16: when a member of a session with other members leaves, no step of
\* its departure touches the registry or the other members: they stay
\* members with their connections as they were, and the relay goes on
\* routing what they send.
C16_PartialFailure ==
    [][\A c \in DOMAIN clients :
          LET o == clients[c].session
              others == objs[o].Clients \ {c}
          IN  (pc[c] \in {"relay", "removing", "notifying"} /\ pc'[c] # pc[c]
               /\ others # {})
              => /\ sessions' = sessions
                 /\ pc'[c] \in {"removing", "notifying", "done"}
                 /\ objs'[o].Clients = others
                    \/ (pc[c] = "relay" /\ objs'[o].Clients = objs[o].Clients)
                 /\ \A d \in others :
                       /\ open'[d] = open[d]
                       /\ pc'[d] = pc[d]
                       /\ up'[d] = up[d]
                       /\ ENABLED RelayData(d) => (ENABLED RelayData(d))']_vars

\* C16 witness: a message was routed between two members of a session that
\* is still registered after a third member left it
C16_Witness ==
    /\ last.op = "relay"
    /\ DOMAIN last.writes # {}
    /\ last.ok # {}
    /\ \E c \in DOMAIN clients :
          /\ pc[c] = "done"
          /\ clients[c].session = clients[last.conn].session
          /\ objs[clients[c].session].ID \in DOMAIN sessions
          /\ sessions[objs[clients[c].session].ID] = clients[c].session

(***************************************************************************)
(* The relay's read deadlines.  A connection may be accepted without its   *)
(* opening command having arrived; the 30-second deadline of main.go:89    *)
(* then ends the read of line 96.  In relayData the 5-minute deadline of   *)
(* line 247 ends the read of line 252 (RelayEnd).  Durations are not       *)
(* counted: a deadline is a step that is taken if it stays possible.       *)
(***************************************************************************)
\* listener.Accept (main.go:68) of a connection that has sent nothing yet
ConnectSilent ==
    /\ budget > 0
    /\ \A d \in Conns : pc[d] # "accepted"
    /\ LET c == Cardinality(Conns) + 1
       IN  /\ pc' = Extend(pc, c, "accepted")
           /\ open' = Extend(open, c, TRUE)
           /\ up' = Extend(up, c, <<>>)
    /\ budget' = budget - 1
    /\ UNCHANGED <<sessions, objs, clients, down, last, relayed, nsent, model, peer, wire, call, locks>>

\* main.go:96-101, mutated: the goroutine returns without conn.Close()
AdmitTimeoutLeftOpen(c) ==
    /\ pc[c] = "accepted"
    /\ up[c] = <<>>
    /\ pc' = [pc EXCEPT ![c] = "timedout"]
    /\ open' = open
    /\ last' = [op |-> "timeout", conn |-> c, msg |-> NoLine, writes |-> <<>>,
                members |-> {}, ok |-> {}]
    /\ UNCHANGED <<sessions, objs, clients, up, down, relayed, budget, nsent, model, peer, wire, call, locks>>

\* main.go:96-101: no complete line by the deadline; conn.Close() and return
AdmitTimeout(c) ==
    /\ pc[c] = "accepted"
    /\ up[c] = <<>>
    /\ pc' = [pc EXCEPT ![c] = "timedout"]
    /\ open' = [open EXCEPT ![c] = FALSE]
    /\ last' = Step("timeout", c, NoLine, <<>>, {})
    /\ UNCHANGED <<sessions, objs, clients, up, down, relayed, budget, nsent, model, peer, wire, call, locks>>

\* the opening command of a connection that was accepted silent
LateOpening(c, cmd) ==
    /\ pc[c] = "accepted"
    /\ up[c] = <<>>
    /\ up' = [up EXCEPT ![c] = << Opening(cmd, "s1", CHOOSE n \in Nicknames : TRUE, <<>>) >>]
    /\ UNCHANGED <<sessions, objs, clients, pc, open, down, last, relayed, budget, nsent, model, peer, wire, call, locks>>

\* what the goroutine serving connection c does next
ServerStep(c) ==
    /\ c \in Conns
    /\ \/ AdmitTimeout(c)
       \/ HandleConnection(c, 0)
       \/ RelayData(c)
       \/ RelayEnd(c)
       \/ RemoveClient(c)
       \/ RemoveSession(c)
       \/ NotifyLeft(c)

TimeoutNext ==
    \/ \E cmd \in {"CREATE", "JOIN"} : Connect(cmd, "s1", <<>>)
    \/ ConnectSilent
    \/ \E c \in Conns, cmd \in {"CREATE", "JOIN"} : LateOpening(c, cmd)
    \/ \E c \in {d \in Conns : pc[d] = "relay"} : PeerSend(c, RelayMsg("nickname", 0, 0, Hello))
    \/ \E c \in Conns : AdmitTimeout(c)
    \/ \E c \in Conns : HandleConnection(c, 0)
    \/ \E c \in Conns : RelayData(c)
    \/ \E c \in Conns : RelayEnd(c)
    \/ \E c \in Conns : RemoveClient(c)
    \/ \E c \in Conns : RemoveSession(c)
    \/ \E c \in Conns : NotifyLeft(c)

\* every goroutine keeps running, and a deadline that stays due expires
SpecTimeout ==
    RelayInit /\ [][TimeoutNext]_vars /\ \A c \in 1..MaxConns : WF_vars(ServerStep(c))

\* C14: a connection whose opening command has not arrived does not stay
\* unadmitted: the deadline closes it; the step that does so writes nothing
\* and changes neither the registry nor any session.
C14_AdmissionTimeout ==
    /\ \A c \in 1..MaxConns :
          (c \in Conns /\ pc[c] = "accepted" /\ up[c] = <<>>)
          ~> (c \in Conns /\ (up[c] # <<>> \/ (pc[c] = "timedout" /\ ~open[c])))
    /\ [][\A c \in Conns :
             (pc[c] = "accepted" /\ pc'[c] = "timedout")
             => /\ ~open'[c]
                /\ sessions' = sessions /\ objs' = objs /\ clients' = clients
                /\ down' = down
                /\ last'.writes = <<>>
                /\ \A d \in Conns \ {c} : open'[d] = open[d] /\ pc'[d] = pc[d]]_vars

\* C14 witness: a silent connection was closed while a session had a member
C14_Witness ==
    /\ last.op = "timeout"
    /\ ~open[last.conn]
    /\ \E sid \in DOMAIN sessions : objs[sessions[sid]].Clients # {}

\* the session object o has no member, no connection that was one is open,
\* and the registry does not hold it
SessionGone(o) ==
    /\ o \in DOMAIN objs
    /\ objs[o].Clients = {}
    /\ \A c \in DOMAIN clients : clients[c].session = o => ~open[c]
    /\ \A sid \in DOMAIN sessions : sessions[sid] # o

\* C15: a session whose members send nothing more does not last: every
\* member's connection is closed and the session leaves the registry.
C15_InactivityTimeout ==
    \A o \in 1..MaxConns :
        (o \in DOMAIN objs /\ \A c \in objs[o].Clients : up[c] = <<>>)
        ~> SessionGone(o)

\* C15 witness: a session of two that had carried a message is gone
C15_Witness ==
    \E o \in DOMAIN objs :
        /\ SessionGone(o)
        /\ Cardinality({c \in DOMAIN clients : clients[c].session = o}) = 2
        /\ nsent > 0

(***************************************************************************)
(* Order of relayed messages.  Three members are in one session and each   *)
(* has already written a script of messages to its connection; the k-th    *)
(* message of a script carries a blob of length k.  down collects what     *)
(* the relay writes to each member from then on.                           *)
(***************************************************************************)
FifoMembers == 1..MaxConns

\* the number of messages in a member's script
ScriptLen(c) == IF c = 1 THEN MaxScript ELSE 1

\* the k-th message of a script: broadcast, or directed to a member r
ScriptLine(k, r) ==
    IF r = 0 THEN RelayMsg("nickname", 0, 0, [id |-> "blob", len |-> k])
             ELSE RelayMsg("message", r, 0, [id |-> "blob", len |-> k])

\* the scripts member c may have written
Scripts(c) ==
    {[k \in 1..ScriptLen(c) |-> ScriptLine(k, r[k])] :
        r \in [1..ScriptLen(c) -> {0} \cup (FifoMembers \ {c})]}

FifoInit ==
    /\ sessions = [sid \in {"s1"} |-> 1]
    /\ objs = [o \in {1} |-> [ID |-> "s1", OwnerID |-> 1, Clients |-> FifoMembers,
                              Banned |-> {}]]
    /\ clients = [c \in FifoMembers |-> [id |-> c, nickname |-> "neo", publicKey |-> <<>>,
                                          session |-> 1]]
    /\ pc = [c \in FifoMembers |-> "relay"]
    /\ open = [c \in FifoMembers |-> TRUE]
    /\ up \in [FifoMembers -> UNION {Scripts(c) : c \in FifoMembers}]
    /\ \A c \in FifoMembers : up[c] \in Scripts(c)
    /\ down = [c \in FifoMembers |-> <<>>]
    /\ last = Step("none", 0, NoLine, <<>>, {})
    /\ relayed = [o \in {1} |-> 0]
    /\ budget = 0
    /\ nsent = 0
    /\ model = <<>>
    /\ peer = <<>>
    /\ wire = <<>>
    /\ call = NoCall
    /\ locks = NoLocks

FifoNext ==
    \/ \E c \in Conns : RelayData(c)
    \/ \E c \in Conns : RelayEnd(c)
    \/ \E c \in Conns : RemoveClient(c)
    \/ \E c \in Conns : RemoveSession(c)
    \/ \E c \in Conns : NotifyLeft(c)

SpecFifo == FifoInit /\ [][FifoNext]_vars

\* the blob lengths of the messages from a among the lines written to b
FromTo(a, b) ==
    LET IsFrom(m) == m.kind = "json" /\ m.type \in {"nickname", "message"} /\ m.sender = a
        s == SelectSeq(down[b], IsFrom)
    IN  [i \in 1..Len(s) |-> s[i].ciphertext.len]

\* C17: the messages from member a that the relay has written to member b
\* appear in the order a sent them and none appears twice, whatever the
\* other members send.
C17_Fifo ==
    \A a \in FifoMembers : \A b \in FifoMembers \ {a} :
        LET s == FromTo(a, b)
        IN  \A i \in 1..Len(s), j \in 1..Len(s) : i < j => s[i] < s[j]

\* C17 witness: b has received two messages of a, with a message of a third
\* member written between them
C17_Witness ==
    \E a \in FifoMembers : \E b \in FifoMembers \ {a} :
        \E i \in 1..Len(down[b]), j \in 1..Len(down[b]), k \in 1..Len(down[b]) :
            /\ i < k /\ k < j
            /\ down[b][i].sender = a /\ down[b][j].sender = a
            /\ down[b][i].ciphertext.len < down[b][j].ciphertext.len
            /\ down[b][k].sender \notin {a, b}

(***************************************************************************)
(* What the relay does to the fields of a line.  The members of a session  *)
(* send lines that carry a number beside the protocol's fields.            *)
(***************************************************************************)
\* 2^53 + k, for k below 4
Pow53Plus(k) ==
    [i \in 1..(MantissaBits + 1) |->
        IF i = 1 THEN 1
        ELSE IF i = MantissaBits THEN (k \div 2) % 2
        ELSE IF i = MantissaBits + 1 THEN k % 2
        ELSE 0]

Numbers == {<<1>>, <<1, 0, 1>>} \cup {Pow53Plus(k) : k \in 0..3}

OpaqueLines ==
    {WithSeq(RelayMsg(t, r, 0, Hello), n) :
        t \in {"message", "nickname"}, r \in 1..MaxConns, n \in Numbers}
    \cup {RelayMsg("message", r, 1, Hello) : r \in 1..MaxConns}

OpaqueInit ==
    /\ sessions = [sid \in {"s1"} |-> 1]
    /\ objs = [o \in {1} |-> [ID |-> "s1", OwnerID |-> 1, Clients |-> 1..MaxConns,
                              Banned |-> {}]]
    /\ clients = [c \in 1..MaxConns |-> [id |-> c, nickname |-> "neo", publicKey |-> <<>>,
                                          session |-> 1]]
    /\ pc = [c \in 1..MaxConns |-> "relay"]
    /\ open = [c \in 1..MaxConns |-> TRUE]
    /\ up = [c \in 1..MaxConns |-> <<>>]
    /\ down = [c \in 1..MaxConns |-> <<>>]
    /\ last = Step("none", 0, NoLine, <<>>, {})
    /\ relayed = [o \in {1} |-> 0]
    /\ budget = 0
    /\ nsent = 0
    /\ model = <<>>
    /\ peer = <<>>
    /\ wire = <<>>
    /\ call = NoCall
    /\ locks = NoLocks

OpaqueNext ==
    \/ \E c \in Conns, m \in OpaqueLines : PeerSend(c, m)
    \/ \E c \in Conns : RelayData(c)
    \/ \E c \in Conns : RelayEnd(c)
    \/ \E c \in Conns : RemoveClient(c)
    \/ \E c \in Conns : RemoveSession(c)
    \/ \E c \in Conns : NotifyLeft(c)

SpecOpaque == OpaqueInit /\ [][OpaqueNext]_vars

\* C18: every line the relay writes when it forwards a message has the
\* fields of the line it read, each with the value it had, except sender,
\* which is the origin's id.
C18_Opaque ==
    last.op = "relay" =>
        \A d \in DOMAIN last.writes : \A i \in 1..Len(last.writes[d]) :
            LET w == last.writes[d][i]
            IN  /\ DOMAIN w = DOMAIN last.msg
                /\ w.sender = last.conn
                /\ \A f \in DOMAIN w \ {"sender"} : w[f] = last.msg[f]

\* the fields the protocol defines do pass unchanged
OpaqueProtocolFields ==
    last.op = "relay" =>
        \A d \in DOMAIN last.writes : \A i \in 1..Len(last.writes[d]) :
            LET w == last.writes[d][i]
            IN  /\ DOMAIN w = DOMAIN last.msg
                /\ w.sender = last.conn
                /\ \A f \in {"type", "recipient", "ciphertext"} : w[f] = last.msg[f]

(***************************************************************************)
(* File transfer in the multi-party client.  A file name or path is its    *)
(* bytes; what a client has created on disk is model[c].disk; log is what  *)
(* SendFileChunks has sent and reported, in order.                         *)
(***************************************************************************)
\* the files a user may name: "a", holding "hi", and "e", which is empty
Paths == {<<97>>, <<101>>}

FileBytes(path) == IF path = <<97>> THEN <<104, 105>> ELSE <<>>

\* strings.TrimRight(path, "/"), as filepath.Base strips trailing separators
RECURSIVE StripSlashes(_)
StripSlashes(path) ==
    IF path # <<>> /\ path[Len(path)] = 47 THEN StripSlashes(SubSeq(path, 1, Len(path) - 1))
    ELSE path

\* filepath.Base, mutated: the path as it stands
WholePath(path) == path

\* filepath.Base on a system whose separator is '/': "." for the empty
\* path, "/" for a path of separators only, else the last element
Base(path) ==
    IF path = <<>> THEN <<46>>
    ELSE LET stripped == StripSlashes(path)
             slashes == {i \in 1..Len(stripped) : stripped[i] = 47}
         IN  IF stripped = <<>> THEN <<47>>
             ELSE IF slashes = {} THEN stripped
             ELSE SubSeq(stripped, (CHOOSE i \in slashes : \A j \in slashes : j <= i) + 1,
                         Len(stripped))

(***************************************************************************)
(* The file system as os.Create sees it.  A directory is the sequence of   *)
(* the names that lead to it from the root; the client runs in /w, and the *)
(* root and /w are the only directories.                                   *)
(***************************************************************************)
Cwd == << <<119>> >>

Dirs == {<<>>, Cwd}

\* strings.Split(path, "/")
RECURSIVE Split(_)
Split(path) ==
    LET slashes == {i \in 1..Len(path) : path[i] = 47}
    IN  IF slashes = {} THEN << path >>
        ELSE LET i == CHOOSE k \in slashes : \A j \in slashes : k <= j
             IN  << SubSeq(path, 1, i - 1) >> \o Split(SubSeq(path, i + 1, Len(path)))

\* path resolution by the kernel from directory dir: the directory and the
\* name of the file the elements lead to, or an error when an element on
\* the way is no directory or the last element names one
RECURSIVE Walk(_, _)
Walk(dir, elems) ==
    LET e == Head(elems)
        final == Len(elems) = 1
        fail == [err |-> TRUE, dir |-> <<>>, name |-> <<>>]
    IN  IF e = <<>> \/ e = <<46>>
        THEN IF final THEN fail ELSE Walk(dir, Tail(elems))
        ELSE IF e = <<46, 46>>
        THEN IF final THEN fail
             ELSE Walk(IF dir = <<>> THEN dir ELSE SubSeq(dir, 1, Len(dir) - 1), Tail(elems))
        ELSE IF final
        THEN IF Append(dir, e) \in Dirs THEN fail
             ELSE [err |-> FALSE, dir |-> dir, name |-> e]
        ELSE IF Append(dir, e) \in Dirs THEN Walk(Append(dir, e), Tail(elems))
        ELSE fail

\* os.Create(name) by a process whose working directory is Cwd: where the
\* file is created or truncated, or an error
OsCreate(name) ==
    IF name = <<>> THEN [err |-> TRUE, dir |-> <<>>, name |-> <<>>]
    ELSE IF name[1] = 47 THEN Walk(<<>>, Split(name))
    ELSE Walk(Cwd, Split(name))

\* strconv.FormatInt(n, 10)
RECURSIVE Digits(_)
Digits(n) == IF n < 10 THEN <<48 + n>> ELSE Digits(n \div 10) \o <<48 + (n % 10)>>

\* FileMetadata.ToJSON (protocol.go:27-29):
\* {"fileName":"..","fileSize":n,"originalPath":".."}, originalPath omitted
\* when empty; senderID is never set and always omitted
MetaJSON(meta) ==
    <<123, 34, 102, 105, 108, 101, 78, 97, 109, 101, 34, 58, 34>> \o meta.FileName
    \o <<34, 44, 34, 102, 105, 108, 101, 83, 105, 122, 101, 34, 58>> \o Digits(meta.FileSize)
    \o (IF meta.OriginalPath = <<>> THEN <<125>>
        ELSE <<44, 34, 111, 114, 105, 103, 105, 110, 97, 108, 80, 97, 116, 104, 34, 58, 34>>
             \o meta.OriginalPath \o <<34, 125>>)

\* the metadata of the files a user may name, with and without the path
Metas == {Meta(Base(p), Len(FileBytes(p)), o) : p \in Paths, o \in Paths \cup {<<>>}}

\* json.Unmarshal(text, &meta) (network.go:52, 59): the metadata whose JSON
\* the text is, or an error
ParseMeta(text) ==
    IF \E m \in Metas : MetaJSON(m) = text
    THEN [err |-> FALSE, meta |-> CHOOSE m \in Metas : MetaJSON(m) = text]
    ELSE [err |-> TRUE, meta |-> NoMeta]

\* a JSON string with the given characters
Str(chars) == [isNull |-> FALSE, str |-> chars]

\* the lines of a file transfer (filetransfer.go:50-54, 91-95, 106-109;
\* model.go:329-333, 346-349)
FileOffer(recipient, metadata) ==
    [kind |-> "json", type |-> "file_offer", recipient |-> recipient, sender |-> 0,
     ciphertext |-> [id |-> "", len |-> Len(metadata.str)], metadata |-> metadata]

FileAccept(recipient, metadata) ==
    [kind |-> "json", type |-> "file_accept", recipient |-> recipient, sender |-> 0,
     ciphertext |-> [id |-> "", len |-> Len(metadata.str)], metadata |-> metadata]

FileReject(recipient) ==
    [kind |-> "json", type |-> "file_reject", recipient |-> recipient, sender |-> 0,
     ciphertext |-> [id |-> "", len |-> 0]]

FileChunk(recipient, chunk) ==
    [kind |-> "json", type |-> "file_chunk", recipient |-> recipient, sender |-> 0,
     ciphertext |-> [id |-> "", len |-> Len(chunk.str)], chunk |-> chunk]

FileDone(recipient) ==
    [kind |-> "json", type |-> "file_done", recipient |-> recipient, sender |-> 0,
     ciphertext |-> [id |-> "", len |-> 0]]

\* RequestSendFile, filetransfer.go:18-59, mutated: a file of exactly the
\* maximum size is refused too
RequestSendFileAtLimit(sharedKey, filePath, maxFileSize, recipientID, nonce) ==
    IF filePath \notin Paths THEN [lines |-> <<>>, failed |-> FALSE, err |-> TRUE]
    ELSE IF Len(FileBytes(filePath)) >= maxFileSize
    THEN [lines |-> <<>>, failed |-> TRUE, err |-> FALSE]
    ELSE LET meta == Meta(Base(filePath), Len(FileBytes(filePath)), filePath)
             encryptedMeta == Encrypt(MetaJSON(meta), sharedKey, nonce)
         IN  IF encryptedMeta.err THEN [lines |-> <<>>, failed |-> FALSE, err |-> TRUE]
             ELSE [lines |-> << FileOffer(recipientID, JsonBytes(encryptedMeta.out)) >>,
                   failed |-> FALSE, err |-> FALSE]

\* RequestSendFile (filetransfer.go:18-59): the line it sends, whether it
\* reports FileOfferFailed, whether it reports an error
RequestSendFile(sharedKey, filePath, maxFileSize, recipientID, nonce) ==
    IF filePath \notin Paths THEN [lines |-> <<>>, failed |-> FALSE, err |-> TRUE]
    ELSE IF Len(FileBytes(filePath)) > maxFileSize
    THEN [lines |-> <<>>, failed |-> TRUE, err |-> FALSE]
    ELSE LET meta == Meta(Base(filePath), Len(FileBytes(filePath)), filePath)
             encryptedMeta == Encrypt(MetaJSON(meta), sharedKey, nonce)
         IN  IF encryptedMeta.err THEN [lines |-> <<>>, failed |-> FALSE, err |-> TRUE]
             ELSE [lines |-> << FileOffer(recipientID, JsonBytes(encryptedMeta.out)) >>,
                   failed |-> FALSE, err |-> FALSE]

\* SendFileChunks (filetransfer.go:62-114) from offset off on: the lines it
\* sends, what it sends and reports in order, whether it stops on an error
RECURSIVE SendFileLoop(_, _, _, _, _)
SendFileLoop(sharedKey, filePath, recipientID, nonce, off) ==
    LET size == Len(FileBytes(filePath))
    IN  IF off >= size
        THEN [lines |-> << FileDone(recipientID) >>, log |-> << [ev |-> "file_done"] >>,
              err |-> FALSE]
        ELSE LET bytesRead == IF size - off < ChunkSize THEN size - off ELSE ChunkSize
                 chunk == SubSeq(FileBytes(filePath), off + 1, off + bytesRead)
                 encryptedChunk == Encrypt(chunk, sharedKey, nonce)
             IN  IF encryptedChunk.err THEN [lines |-> <<>>, log |-> <<>>, err |-> TRUE]
                 ELSE LET rest == SendFileLoop(sharedKey, filePath, recipientID, nonce,
                                               off + bytesRead)
                      IN  [lines |-> << FileChunk(recipientID,
                                                  JsonBytes(encryptedChunk.out)) >>
                                     \o rest.lines,
                           log |-> << [ev |-> "file_chunk"],
                                      [ev |-> "progress", sent |-> off + bytesRead,
                                       size |-> size] >> \o rest.log,
                           err |-> rest.err]

SendFileChunks(sharedKey, filePath, recipientID, nonce) ==
    IF filePath \notin Paths THEN [lines |-> <<>>, log |-> <<>>, err |-> TRUE]
    ELSE SendFileLoop(sharedKey, filePath, recipientID, nonce, 0)

\* FileTransferProgress(1.0) was reported: bytesSent / size >= 1.0
Complete(log) ==
    \E i \in 1..Len(log) : log[i].ev = "progress" /\ log[i].size > 0
                            /\ log[i].sent >= log[i].size

\* the status after a transfer or an offer has ended (model.go:446-450)
Rest(m) == IF m.IsConnected THEN "CONNECTED" ELSE "Idle"

\* NewModel (model.go:149): MaxFileSize in bytes
MaxFileSize == MaxFileSizeMB * 1024 * 1024

\* model.go:265-267: RequestSendFile for each user in turn
RECURSIVE OfferAll(_, _, _, _)
OfferAll(sharedSecrets, order, filePath, nonce) ==
    IF order = <<>> THEN [lines |-> <<>>, failed |-> FALSE, err |-> FALSE]
    ELSE LET one == RequestSendFile(sharedSecrets[Head(order)], filePath, MaxFileSize,
                                    Head(order), nonce)
             rest == OfferAll(sharedSecrets, Tail(order), filePath, nonce)
         IN  [lines |-> one.lines \o rest.lines,
              failed |-> one.failed \/ rest.failed,
              err |-> one.err \/ rest.err]

\* Update, model.go:260-271: the user enters "/send <filePath>"; the command
\* offers the file to every user a shared secret is held for, in map order
SubmitSend(c, filePath, nonce) ==
    /\ c \in DOMAIN model
    /\ model[c].stage = "listening"
    /\ nsent < MaxInputs
    /\ \E order \in Orderings(DOMAIN model[c].sharedSecrets) :
          LET res == OfferAll(model[c].sharedSecrets, order, filePath, nonce)
              offering == [model[c] EXCEPT !.IsAwaitingAcceptance = TRUE,
                                           !.Status = "TRANSFERRING: Offering",
                                           !.key = "/send"]
          IN  /\ up' = [up EXCEPT ![c] = @ \o res.lines]
              /\ model' = [model EXCEPT ![c] =
                    IF res.err THEN [offering EXCEPT !.stage = "quit"]
                    ELSE IF res.failed
                    THEN [offering EXCEPT !.IsAwaitingAcceptance = FALSE,
                                          !.Status = Rest(offering)]
                    ELSE offering]
    /\ nsent' = nsent + 1
    /\ UNCHANGED <<sessions, objs, clients, pc, open, down, last, relayed, budget, peer, wire, call, locks>>

\* Update, model.go:319-343: the user types 'y' while an offer is pending.
\* The errors of ToJSON and Encrypt are dropped; a nil slice is sent as null.
KeyYes(c, nonce) ==
    /\ c \in DOMAIN model
    /\ model[c].stage = "listening"
    /\ model[c].PendingOffer.FileName # <<>>
    /\ nsent < MaxInputs
    /\ LET m == model[c]
           sharedKey == IF m.FileOfferSenderID \in DOMAIN m.sharedSecrets
                        THEN m.sharedSecrets[m.FileOfferSenderID] ELSE <<>>
           encryptedMeta == Encrypt(MetaJSON(m.PendingOffer), sharedKey, nonce)
           name == Base(m.PendingOffer.FileName)
       IN  /\ up' = [up EXCEPT ![c] =
                       Append(@, FileAccept(m.FileOfferSenderID, JsonBytes(encryptedMeta.out)))]
           /\ model' = [model EXCEPT ![c] =
                 IF OsCreate(name).err THEN [m EXCEPT !.stage = "quit", !.key = "y"]
                 ELSE [m EXCEPT !.disk = Extend(@, name, [bytes |-> <<>>, closed |-> FALSE]),
                                !.IsTransferring = TRUE,
                                !.IsReceiving = TRUE,
                                !.ReceivingFile = name,
                                !.key = "y"]]
    /\ nsent' = nsent + 1
    /\ UNCHANGED <<sessions, objs, clients, pc, open, down, last, relayed, budget, peer, wire, call, locks>>

\* Update, model.go:344-351: the user types 'n' while an offer is pending
KeyNo(c) ==
    /\ c \in DOMAIN model
    /\ model[c].stage = "listening"
    /\ model[c].PendingOffer.FileName # <<>>
    /\ nsent < MaxInputs
    /\ up' = [up EXCEPT ![c] = Append(@, FileReject(model[c].FileOfferSenderID))]
    /\ model' = [model EXCEPT ![c].PendingOffer = NoMeta, ![c].key = "n"]
    /\ nsent' = nsent + 1
    /\ UNCHANGED <<sessions, objs, clients, pc, open, down, last, relayed, budget, peer, wire, call, locks>>

\* network.go:49-56 and model.go:425-429
OnFileOffer(m, line) ==
    IF "metadata" \notin DOMAIN line \/ line.metadata.isNull
    THEN [m EXCEPT !.stage = "crashed"]
    ELSE LET parsed == ParseMeta(KeyField(line.metadata))
         IN  IF parsed.err THEN [m EXCEPT !.stage = "quit"]
             ELSE [m EXCEPT !.PendingOffer = parsed.meta,
                            !.FileOfferSenderID = line.sender,
                            !.Status = "TRANSFERRING: Receiving file offer"]

\* model.go:431-441 and 500-505: FileOfferAcceptedMsg, then what the run of
\* SendFileChunks reported.  SendFileOfferAccepted (model.go:60-62) leaves
\* SenderID empty, so the key is m.sharedSecrets[""] and the recipient "".
OnFileAccepted(m, sent) ==
    LET sending == [m EXCEPT !.IsAwaitingAcceptance = FALSE,
                             !.IsTransferring = TRUE,
                             !.Status = "TRANSFERRING: Sending",
                             !.log = @ \o sent.log]
    IN  IF sent.err THEN [sending EXCEPT !.stage = "quit"]
        ELSE IF Complete(sent.log) /\ ~sending.IsReceiving
        THEN [sending EXCEPT !.IsTransferring = FALSE, !.Status = Rest(sending)]
        ELSE sending

\* model.go:443-451
OnFileRejected(m) == [m EXCEPT !.IsAwaitingAcceptance = FALSE, !.Status = Rest(m)]

\* network.go:67-68 and model.go:471-481: []byte(msg["chunk"].(string)) is
\* written to the file as it stands
OnFileChunk(m, line) ==
    IF "chunk" \notin DOMAIN line \/ line.chunk.isNull THEN [m EXCEPT !.stage = "crashed"]
    ELSE IF m.IsReceiving /\ m.ReceivingFile # <<>>
    THEN [m EXCEPT !.disk[m.ReceivingFile].bytes = @ \o KeyField(line.chunk)]
    ELSE m

\* model.go:483-498
OnFileDone(m) ==
    IF ~m.IsTransferring THEN m
    ELSE LET closed == IF m.IsReceiving
                       THEN [m EXCEPT !.disk[m.ReceivingFile].closed = TRUE,
                                      !.ReceivingFile = <<>>,
                                      !.PendingOffer = NoMeta]
                       ELSE m
         IN  [closed EXCEPT !.IsTransferring = FALSE, !.IsReceiving = FALSE,
                            !.Status = Rest(m)]

\* ListenForMessages (network.go:49-70) reads one line of a file transfer;
\* Update handles it
ListenFile(c, nonce) ==
    /\ c \in DOMAIN model
    /\ model[c].stage = "listening"
    /\ down[c] # <<>>
    /\ Head(down[c]).kind = "json"
    /\ Head(down[c]).type \in FileTypes
    /\ LET line == Head(down[c])
           m == model[c]
           accepted == IF "metadata" \notin DOMAIN line \/ line.metadata.isNull
                       THEN [err |-> TRUE, meta |-> NoMeta]
                       ELSE ParseMeta(KeyField(line.metadata))
           sent == SendFileChunks(<<>>, accepted.meta.OriginalPath, 0, nonce)
       IN  IF line.type = "file_accept"
           THEN IF "metadata" \notin DOMAIN line \/ line.metadata.isNull
                THEN /\ model' = [model EXCEPT ![c].stage = "crashed"]
                     /\ up' = up
                ELSE IF accepted.err
                THEN /\ model' = [model EXCEPT ![c].stage = "quit"]
                     /\ up' = up
                ELSE /\ model' = [model EXCEPT ![c] = OnFileAccepted(m, sent)]
                     /\ up' = [up EXCEPT ![c] = @ \o sent.lines]
           ELSE /\ model' = [model EXCEPT ![c] =
                       CASE line.type = "file_offer" -> OnFileOffer(m, line)
                         [] line.type = "file_reject" -> OnFileRejected(m)
                         [] line.type = "file_chunk" -> OnFileChunk(m, line)
                         [] line.type = "file_done" -> OnFileDone(m)]
                /\ up' = up
    /\ down' = [down EXCEPT ![c] = Tail(@)]
    /\ UNCHANGED <<sessions, objs, clients, pc, open, last, relayed, budget, nsent, peer, wire, call, locks>>

\* a line a peer that is not the client program writes to the relay
PeerFileSend(c, m) ==
    /\ pc[c] = "relay"
    /\ c \notin DOMAIN model
    /\ nsent < MaxInputs
    /\ up' = [up EXCEPT ![c] = Append(@, m)]
    /\ nsent' = nsent + 1
    /\ UNCHANGED <<sessions, objs, clients, pc, open, down, last, relayed, budget, model, peer, wire, call, locks>>

\* the lines of such a peer, by recipient: an offer and an acceptance whose
\* metadata is the JSON text itself, and a rejection
PeerFileLines ==
    [r \in 1..MaxConns |->
        {FileOffer(r, Str(MetaJSON(Meta(<<97>>, 2, <<97>>)))), FileReject(r)}
        \cup {FileAccept(r, Str(MetaJSON(Meta(Base(p), Len(FileBytes(p)), p)))) : p \in Paths}]

\* such a peer sends the file it offered as SendFileChunks does, under a
\* 32-byte key: all the lines at once, after client r has accepted its
\* offer and the acceptance has been relayed, and once only
PeerSendFile(c, r, nonce) ==
    /\ pc[c] = "relay"
    /\ c \notin DOMAIN model
    /\ nsent < MaxInputs
    /\ r \in DOMAIN model
    /\ model[r].stage = "listening"
    /\ model[r].IsReceiving
    /\ model[r].FileOfferSenderID = c
    /\ model[r].PendingOffer.OriginalPath \in Paths
    /\ model[r].disk[model[r].ReceivingFile].bytes = <<>>
    /\ up[r] = <<>> /\ up[c] = <<>> /\ down[r] = <<>>
    /\ up' = [up EXCEPT ![c] =
                 SendFileChunks(EstablishedKey, model[r].PendingOffer.OriginalPath, r,
                                nonce).lines]
    /\ nsent' = nsent + 1
    /\ UNCHANGED <<sessions, objs, clients, pc, open, down, last, relayed, budget, model, peer, wire, call, locks>>

FileNonces == {CHOOSE n \in Nonces : TRUE}

\* one run: a client creates the session, a second client and then a peer
\* that is not the client program join it; that peer writes to the second
\* client; nobody leaves
FileNext ==
    \/ Cardinality(Conns) = 0 /\ Dial("CREATE", "s1")
    \/ Cardinality(Conns) = 1 /\ Dial("JOIN", "s1")
    \/ Cardinality(Conns) = 2 /\ Connect("JOIN", "s1", PublicKey(3))
    \/ \E c \in Conns : HandleConnection(c, 0)
    \/ \E c \in Conns : RelayData(c)
    \/ \E c \in Conns : InitRead(c, 0)
    \/ \E c \in Conns : Listen(c)
    \/ \E c \in Conns, nonce \in FileNonces : ListenFile(c, nonce)
    \/ \E c \in Conns, filePath \in Paths, nonce \in FileNonces : SubmitSend(c, filePath, nonce)
    \/ \E c \in Conns, nonce \in FileNonces : KeyYes(c, nonce)
    \/ \E c \in Conns : KeyNo(c)
    \/ \E c \in Conns \ DOMAIN model, r \in DOMAIN model \ {1} :
          \E m \in PeerFileLines[r] : PeerFileSend(c, m)
    \/ \E c \in Conns, r \in Conns, nonce \in FileNonces : PeerSendFile(c, r, nonce)

SpecFile == RelayInit /\ [][FileNext]_vars


IsPrefix(s, t) == Len(s) <= Len(t) /\ SubSeq(t, 1, Len(s)) = s

\* what a client has written to the files it accepted: bytes of the file
\* offered under that name, in order, and all of them once the file is closed
ReceivedRight(m) ==
    \A name \in DOMAIN m.disk :
        /\ IsPrefix(m.disk[name].bytes, FileBytes(name))
        /\ m.disk[name].closed => m.disk[name].bytes = FileBytes(name)

\* what SendFileChunks has sent and reported: before a file_done stands the
\* report of the last chunk, which is 1.0, and reports do not decrease
SentRight(log) ==
    /\ \A i \in 1..Len(log) :
          log[i].ev = "file_done"
          => /\ i > 1
             /\ log[i - 1].ev = "progress"
             /\ log[i - 1].size > 0
             /\ log[i - 1].sent = log[i - 1].size
    /\ \A i \in 1..Len(log), j \in 1..Len(log) :
          (/\ i < j
           /\ log[i].ev = "progress" /\ log[j].ev = "progress"
           /\ \A k \in i..j : log[k].ev # "file_done")
          => log[i].sent <= log[j].sent

\* C19: the bytes a receiver has appended to an accepted file are the
\* sender's file bytes in order, all of them once file_done is handled; a
\* sender sends file_done after the last chunk, its progress reports do
\* not decrease and the last is 1.0.
C19_FileTransfer ==
    \A c \in DOMAIN model : ReceivedRight(model[c]) /\ SentRight(model[c].log)

\* the client a handles a line of the given type sent by s
Handles(a, type) ==
    /\ a \in DOMAIN model
    /\ model[a].stage = "listening"
    /\ down[a] # <<>>
    /\ Head(down[a]).kind = "json"
    /\ Head(down[a]).type = type
    /\ down'[a] = Tail(down[a])

\* the client b answers 'n'
AnswersNo(b) ==
    /\ b \in DOMAIN model
    /\ nsent' = nsent + 1
    /\ model'[b] # model[b]
    /\ model'[b].key = "n"

\* the two handlers of a rejection: the 'n' key and the file_reject line
RejectHandlers ==
    \A c \in DOMAIN model :
        /\ AnswersNo(c)
           => /\ up'[c] = Append(up[c], FileReject(model[c].FileOfferSenderID))
              /\ model'[c].PendingOffer = NoMeta
              /\ model'[c].disk = model[c].disk
              /\ model'[c].ReceivingFile = model[c].ReceivingFile
        /\ (Handles(c, "file_reject") /\ model[c].IsAwaitingAcceptance)
           => /\ ~model'[c].IsAwaitingAcceptance
              /\ model'[c].Status = "CONNECTED"
              /\ up'[c] = up[c]

\* an offer a client made reaches the user it was made to: the receiving
\* client keeps running and holds the offer pending, to be answered
OfferShown ==
    \A b \in DOMAIN model :
        (Handles(b, "file_offer") /\ Head(down[b]).sender \in DOMAIN model)
        => /\ model'[b].stage = "listening"
           /\ model'[b].PendingOffer.FileName # <<>>
           /\ model'[b].FileOfferSenderID = Head(down[b]).sender

\* the handlers of a rejection do what the reject flow asks of them
RejectHandlersRight == [][RejectHandlers]_vars

\* C20: when A offers a file, B is asked and can answer; when B answers 'n'
\* it sends one file_reject, clears the pending offer and creates no file;
\* A, on the file_reject, stops awaiting, shows CONNECTED and sends nothing.
C20_RejectFlow == [][RejectHandlers /\ OfferShown]_vars


(***************************************************************************)
(* RequestSendFile run on its own: every file a user may name or misname,  *)
(* every limit up to MaxLimit bytes, a usable key and none.                *)
(***************************************************************************)
\* a path os.Open finds no file at: "x"
NoSuchPath == <<120>>

\* the sharedKey arguments: the secret of connections 1 and 2, and nil
GuardKeys == {ComputeSharedSecret(PrivateKey(1), PublicKey(2)), <<>>}

\* filetransfer.RequestSendFile(conn, sharedKey, filePath, sender, maxFileSize, recipientID)
CallRequestSendFile(sharedKey, filePath, maxFileSize, recipientID, nonce) ==
    /\ call' = [fn |-> "RequestSendFile", sharedKey |-> sharedKey, filePath |-> filePath,
                maxFileSize |-> maxFileSize, recipientID |-> recipientID,
                nonce |-> nonce,
                out |-> RequestSendFile(sharedKey, filePath, maxFileSize, recipientID,
                                        nonce)]
    /\ UNCHANGED <<relayVars, peer, wire, locks>>

GuardNext ==
    \E sharedKey \in GuardKeys, filePath \in Paths \cup {NoSuchPath},
       maxFileSize \in 0..MaxLimit, recipientID \in 1..MaxConns, nonce \in Nonces :
          CallRequestSendFile(sharedKey, filePath, maxFileSize, recipientID, nonce)

SpecGuard == RelayInit /\ [][GuardNext]_vars

\* C21: RequestSendFile on a file larger than the maximum reports
\* FileOfferFailed once, reports no error and writes no line; on a file of
\* exactly the maximum size, with a key AES accepts, it writes one
\* file_offer line to the recipient and reports nothing.
C21_SizeGuard ==
    (call.fn = "RequestSendFile" /\ call.filePath \in Paths) =>
        LET size == Len(FileBytes(call.filePath))
        IN  /\ size > call.maxFileSize =>
                  /\ call.out.failed
                  /\ ~call.out.err
                  /\ call.out.lines = <<>>
            /\ (size = call.maxFileSize /\ ValidKey(call.sharedKey)) =>
                  /\ ~call.out.failed
                  /\ ~call.out.err
                  /\ Len(call.out.lines) = 1
                  /\ call.out.lines[1].type = "file_offer"
                  /\ call.out.lines[1].recipient = call.recipientID

\* the two-byte file "a" was offered under a limit of one byte
C21_Witness ==
    /\ call.fn = "RequestSendFile"
    /\ call.filePath = <<97>>
    /\ call.maxFileSize = 1
    /\ call.out.failed
    /\ call.out.lines = <<>>


(***************************************************************************)
(* Accepting an offer whose file name a peer chose.  The client behind     *)
(* connection 1 shares a session with the peer on connection 2 and has     *)
(* been shown the peer's offer; the name is any text of up to MaxName      *)
(* characters among 'a', '.' and '/'.                                      *)
(***************************************************************************)
RECURSIVE Texts(_)
Texts(n) ==
    IF n = 0 THEN {<<>>}
    ELSE LET shorter == Texts(n - 1)
         IN  shorter \cup {Append(t, ch) : t \in shorter, ch \in {97, 46, 47}}

OfferedNames == Texts(MaxName) \ {<<>>}

\* the client after FileOfferMsg{Metadata: meta, SenderID: 2} (model.go:425-429)
Offered(meta) ==
    [NewModel(1) EXCEPT !.stage = "listening",
                        !.IsConnected = TRUE,
                        !.sharedSecrets = Extend(<<>>, 2,
                                                 ComputeSharedSecret(PrivateKey(1),
                                                                     PublicKey(2))),
                        !.PendingOffer = meta,
                        !.FileOfferSenderID = 2,
                        !.Status = "TRANSFERRING: Receiving file offer"]

PathInit ==
    /\ sessions = [sid \in {"s1"} |-> 1]
    /\ objs = [o \in {1} |-> [ID |-> "s1", OwnerID |-> 1, Clients |-> {1, 2}, Banned |-> {}]]
    /\ clients = [c \in {1, 2} |-> [id |-> c, nickname |-> "neo", publicKey |-> PublicKey(c),
                                    session |-> 1]]
    /\ pc = [c \in {1, 2} |-> "relay"]
    /\ open = [c \in {1, 2} |-> TRUE]
    /\ up = [c \in {1, 2} |-> <<>>]
    /\ down = [c \in {1} |-> <<>>]
    /\ last = Step("none", 0, NoLine, <<>>, {})
    /\ relayed = [o \in {1} |-> 0]
    /\ budget = 0
    /\ nsent = 0
    /\ \E name \in OfferedNames : model = [c \in {1} |-> Offered(Meta(name, 2, <<>>))]
    /\ peer = <<>>
    /\ wire = <<>>
    /\ call = NoCall
    /\ locks = NoLocks

PathNext ==
    \/ \E nonce \in FileNonces : KeyYes(1, nonce)
    \/ KeyNo(1)
    \/ RelayData(1)

SpecPath == PathInit /\ [][PathNext]_vars

\* name is the last element of path: what follows its last separator,
\* trailing separators aside
LastElement(name, path) ==
    LET p == StripSlashes(path)
        n == Len(name)
    IN  /\ n > 0
        /\ n <= Len(p)
        /\ \A i \in 1..n : name[i] # 47
        /\ SubSeq(p, Len(p) - n + 1, Len(p)) = name
        /\ n < Len(p) => p[Len(p) - n] = 47

\* C22: whatever name an accepted offer carries, every file the receiver
\* has created or truncated lies directly in its working directory, and a
\* file created on accepting an offer is named by the last element of the
\* offered name; nothing is created or truncated elsewhere.
C22_PathSafety ==
    [][\A c \in DOMAIN model' :
          \A name \in DOMAIN model'[c].disk :
              LET at == OsCreate(name)
              IN  /\ ~at.err
                  /\ at.dir = Cwd
                  /\ at.name = name
                  /\ (c \in DOMAIN model /\ name \notin DOMAIN model[c].disk) =>
                        LastElement(name, model[c].PendingOffer.FileName)]_vars

\* the offer named "../a" was accepted and "a" was created
C22_Witness ==
    /\ model[1].PendingOffer.FileName = <<46, 46, 47, 97>>
    /\ model[1].key = "y"
    /\ DOMAIN model[1].disk = {<<97>>}


(***************************************************************************)
(* The reader loop of the two-party client, run on its own against a       *)
(* stream: call.in is what has arrived and is not yet read, call.end how   *)
(* the stream has ended and call.cut how many bytes into a frame,          *)
(* call.events what the loop has handed to its MessageSender, call.written *)
(* the frames the peer has written in full.                                *)
(***************************************************************************)
\* an event handed to the MessageSender; an error carries its text
Event(ev, data) == [ev |-> ev, data |-> data, why |-> ""]

Failure(why) == [ev |-> "Error", data |-> <<>>, why |-> why]

\* part_000:65-69, mutated: the loop returns when decryption fails
OnDecryptErrorReturn == "return"

\* part_000:65-69: the loop continues when decryption fails
OnDecryptError == "continue"

\* ListenForMessages, part_000:65-99: the event for one frame and whether
\* the loop goes on
Dispatch(msgType, encryptedMsg, sharedKey) ==
    LET decrypted == Decrypt(encryptedMsg, sharedKey)
        meta == ParseMeta(decrypted.out)
    IN  IF decrypted.err
        THEN [event |-> Failure("decryption failed"),
              exit |-> OnDecryptError = "return"]
        ELSE [event |->
                CASE msgType = TypeNickname -> Event("ReceivedNickname", decrypted.out)
                  [] msgType = TypeText -> Event("ReceivedText", decrypted.out)
                  [] msgType = TypeFileOffer ->
                        IF meta.err THEN Failure("failed to decode file offer")
                        ELSE Event("FileOffer", meta.meta)
                  [] msgType = TypeFileAccept ->
                        IF meta.err THEN Failure("failed to decode file acceptance")
                        ELSE Event("FileOfferAccepted", meta.meta)
                  [] msgType = TypeFileReject -> Event("FileOfferRejected", <<>>)
                  [] msgType = TypeFileChunk -> Event("FileChunk", decrypted.out)
                  [] msgType = TypeFileDone -> Event("FileDone", <<>>)
                  [] OTHER -> Failure("received unknown message type"),
              exit |-> FALSE]

\* ListenForMessages, part_000:41-63: the event when a read fails.  Only
\* the read of the type byte tells io.EOF from other errors.
ReadFailed(unread, end) ==
    IF unread = <<>>
    THEN IF end = "eof" THEN Event("ConnectionClosed", <<>>)
         ELSE Failure("connection read error")
    ELSE IF Len(unread) < 5 THEN Failure("failed to read length")
    ELSE Failure("failed to read message body")

\* ListenForMessages, part_000:40-100: one turn of the loop
ListenTurn ==
    /\ call.fn = "ListenForMessages"
    /\ ~call.exited
    /\ LET r == ReadFrame(call.in)
       IN  IF r.st = "ok"
           THEN LET d == Dispatch(r.msgType, r.payload, call.sharedKey)
                IN  call' = [call EXCEPT !.in = r.rest,
                                         !.events = Append(@, d.event),
                                         !.read = @ + 1,
                                         !.exited = d.exit]
           ELSE /\ call.end # "open"
                /\ call' = [call EXCEPT !.in = <<>>,
                                        !.events = Append(@, ReadFailed(call.in, call.end)),
                                        !.exited = TRUE]
    /\ UNCHANGED <<relayVars, peer, wire, locks>>

\* the key both sides hold, and another
ListenKey == ComputeSharedSecret(PrivateKey(1), PublicKey(2))

OtherKey == ComputeSharedSecret(PrivateKey(1), PublicKey(3))

ListenNonce == [i \in 1..NonceSize |-> i]

\* b with its i-th byte changed
Tamper(b, i) == [b EXCEPT ![i] = (@ + 1) % 256]

\* a frame as the peer's SendData writes it (part_000:105-131), with the
\* event a reader owes for it
Sound(msgType, data, ev, arg) ==
    [msgType |-> msgType, payload |-> Seal(ListenKey, ListenNonce, data), bad |-> FALSE,
     event |-> Event(ev, arg)]

\* a frame that is not what SendData under the shared key writes
Unsound(msgType, payload) ==
    [msgType |-> msgType, payload |-> payload, bad |-> TRUE, event |-> Failure("")]

SoundFrames ==
    {Sound(TypeNickname, Bytes("neo"), "ReceivedNickname", Bytes("neo")),
     Sound(TypeText, Bytes("hi"), "ReceivedText", Bytes("hi")),
     Sound(TypeText, <<>>, "ReceivedText", <<>>),
     Sound(TypeFileReject, <<>>, "FileOfferRejected", <<>>),
     Sound(TypeFileChunk, Bytes("hi"), "FileChunk", Bytes("hi")),
     Sound(TypeFileDone, <<>>, "FileDone", <<>>)}
    \cup {Sound(TypeFileOffer, MetaJSON(m), "FileOffer", m) :
             m \in {Meta(<<97>>, 2, <<97>>)}}

\* undecryptable payloads, and sealed payloads under a type that is none
UnsoundFrames ==
    LET sealed == Seal(ListenKey, ListenNonce, Bytes("hi"))
    IN  {Unsound(TypeText, Seal(OtherKey, ListenNonce, Bytes("hi"))),
         Unsound(TypeText, <<>>),
         Unsound(TypeText, SubSeq(sealed, 1, NonceSize - 1)),
         Unsound(TypeText, SubSeq(sealed, 1, Len(sealed) - 1)),
         Unsound(99, sealed),
         Unsound(TypePublicKeyExchange, PublicKey(2))}
        \cup {Unsound(TypeText, Tamper(sealed, i)) : i \in {1, NonceSize + 1, Len(sealed)}}

\* the peer's conn.Write of one frame
StreamWrite(f) ==
    /\ call.fn = "ListenForMessages"
    /\ call.end = "open"
    /\ Len(call.written) < MaxInputs
    /\ call' = [call EXCEPT !.in = @ \o Frame(f.msgType, f.payload),
                            !.written = Append(@, f)]
    /\ UNCHANGED <<relayVars, peer, wire, locks>>

\* the stream ends after the first cut bytes of one more frame: the relay
\* closes it ("eof"), it is reset ("reset"), or the client itself closes it
\* on quit ("closed", initial_model.go:586-590), after which a read fails
\* with net.ErrClosed once the reader's buffer is used up
StreamEnd(how, f, cut) ==
    /\ call.fn = "ListenForMessages"
    /\ call.end = "open"
    /\ call' = [call EXCEPT !.in = @ \o SubSeq(Frame(f.msgType, f.payload), 1, cut),
                            !.end = how, !.cut = cut]
    /\ UNCHANGED <<relayVars, peer, wire, locks>>

ListenInit ==
    /\ sessions = <<>> /\ objs = <<>> /\ clients = <<>> /\ pc = <<>>
    /\ open = <<>> /\ up = <<>> /\ down = <<>> /\ relayed = <<>>
    /\ last = Step("none", 0, NoLine, <<>>, {})
    /\ budget = 0
    /\ nsent = 0
    /\ model = <<>>
    /\ peer = <<>>
    /\ wire = <<>>
    /\ call = [fn |-> "ListenForMessages", sharedKey |-> ListenKey, in |-> <<>>,
               end |-> "open", events |-> <<>>, read |-> 0, exited |-> FALSE,
               written |-> <<>>, cut |-> 0]
    /\ locks = NoLocks

ListenNext ==
    \/ ListenTurn
    \/ \E f \in SoundFrames \cup UnsoundFrames : StreamWrite(f)
    \/ \E how \in {"eof", "reset", "closed"}, cut \in {0, 1, 5} :
          StreamEnd(how, Sound(TypeText, Bytes("hi"), "ReceivedText", Bytes("hi")), cut)

SpecListen == ListenInit /\ [][ListenNext]_vars

\* C23: for every frame ListenForMessages has read there is exactly one
\* event: an error for a frame that does not decrypt or whose type is
\* unknown, and for a sound frame, also one that follows such a frame, the
\* event of its type with its plaintext; the loop has exited only after the
\* stream ended, with one more event.
C23_ReaderSurvives ==
    call.fn = "ListenForMessages" =>
        /\ Len(call.events) = call.read + (IF call.exited THEN 1 ELSE 0)
        /\ call.read <= Len(call.written)
        /\ \A i \in 1..call.read :
              IF call.written[i].bad THEN call.events[i].ev = "Error"
              ELSE /\ call.events[i].ev = call.written[i].event.ev
                   /\ call.events[i].data = call.written[i].event.data
        /\ call.exited => call.end # "open"

\* an undecryptable frame, a frame of unknown type and a sound text frame
\* were read in turn: two errors, then the text
C23_Witness ==
    /\ call.fn = "ListenForMessages"
    /\ call.read = 3
    /\ ~call.exited
    /\ call.written[1].bad /\ call.written[1].msgType = TypeText
    /\ call.written[2].bad /\ call.written[2].msgType = 99
    /\ call.events[1] = Failure("decryption failed")
    /\ call.events[2] = Failure("received unknown message type")
    /\ call.events[3].ev = "ReceivedText"
    /\ call.events[3].data = Bytes("hi")


\* the events that report the end of the connection
CloseEvents == {i \in 1..Len(call.events) : call.events[i].ev = "ConnectionClosed"}

\* C24: once the stream has ended, by the relay closing it or by the
\* client closing it on quit, and the reader loop has exited, the loop has
\* emitted exactly one connection-closed event, and it is its last event.
C24_CloseEvent ==
    (call.fn = "ListenForMessages" /\ call.end \in {"eof", "closed"} /\ call.exited) =>
        CloseEvents = {Len(call.events)}

\* what the loop does keep: it emits nothing after it has exited, at most
\* one connection-closed event and only as its last, and it emits one when
\* the relay closes the stream between two frames
CloseOnCleanEOF ==
    call.fn = "ListenForMessages" =>
        /\ CloseEvents \subseteq {Len(call.events)}
        /\ CloseEvents # {} => call.exited /\ call.end = "eof"
        /\ (call.exited /\ call.end = "eof" /\ call.cut = 0) => CloseEvents # {}


(***************************************************************************)
(* Encrypt and Decrypt run on their own: a plaintext is sealed under a     *)
(* 32-byte key, and the blob is opened as it stands, under another key,    *)
(* with one byte changed, or cut short.                                    *)
(***************************************************************************)
AeadKeys == {ListenKey, OtherKey}

AeadTexts == {<<>>, Bytes("hi"), Bytes("neo")}

\* what may happen to a blob and the key between Encrypt and Decrypt
Alterations(blob) ==
    {[kind |-> "none", at |-> 0]}
    \cup {[kind |-> "key", at |-> i] : i \in {0, 1, TagSize + 1, KeySize}}
    \cup {[kind |-> "byte", at |-> i] : i \in 1..Len(blob)}
    \cup {[kind |-> "cut", at |-> n] : n \in 0..(Len(blob) - 1)}

\* the key Decrypt is given: the key, another key, or the key with its
\* at-th byte changed
AlteredKey(key, alt) ==
    IF alt.kind # "key" THEN key
    ELSE IF alt.at = 0 THEN CHOOSE k \in AeadKeys : k # key
    ELSE Tamper(key, alt.at)

\* the blob Decrypt is given
AlteredBlob(blob, alt) ==
    IF alt.kind = "byte" THEN Tamper(blob, alt.at)
    ELSE IF alt.kind = "cut" THEN SubSeq(blob, 1, alt.at)
    ELSE blob

\* Decrypt(Encrypt(plaintext, key)) with the alteration in between
CallDecrypt(plaintext, key, nonce, alt) ==
    /\ LET sealed == Encrypt(plaintext, key, nonce)
       IN  call' = [fn |-> "Decrypt", plaintext |-> plaintext, key |-> key,
                    nonce |-> nonce, alt |-> alt, sealed |-> sealed,
                    out |-> Decrypt(AlteredBlob(sealed.out, alt), AlteredKey(key, alt))]
    /\ UNCHANGED <<relayVars, peer, wire, locks>>

AeadNext ==
    \E plaintext \in AeadTexts, key \in AeadKeys, nonce \in Nonces :
       \E alt \in Alterations(Encrypt(plaintext, key, nonce).out) :
          CallDecrypt(plaintext, key, nonce, alt)

SpecAead == RelayInit /\ [][AeadNext]_vars

\* C25: Decrypt of what Encrypt made of a plaintext under a 32-byte key
\* returns the plaintext under the same key; under another key, with any
\* one byte of the blob changed, or with the blob cut short (to less than
\* the nonce or to less than the whole), it returns an error and nothing.
C25_AeadRoundTrip ==
    call.fn = "Decrypt" =>
        /\ ~call.sealed.err
        /\ Len(call.sealed.out) = NonceSize + Len(call.plaintext) + TagSize
        /\ IF call.alt.kind = "none"
           THEN ~call.out.err /\ call.out.out = call.plaintext
           ELSE call.out.err /\ call.out.out = <<>>

\* the sealed empty plaintext was opened again
C25_Witness ==
    /\ call.fn = "Decrypt"
    /\ call.plaintext = <<>>
    /\ call.alt.kind = "none"
    /\ ~call.out.err
    /\ call.out.out = <<>>


\* C26: whatever the interleaving of the last member's removeClient with a
\* JOIN, a session that has a member is in the registry under its id, so a
\* client answered "Joined session" is in a registered session; and a
\* departure deletes no registry entry that stands for another session.
C26_RegistryConsistent ==
    [][/\ \A o \in DOMAIN objs' :
             objs'[o].Clients # {} =>
                /\ objs'[o].ID \in DOMAIN sessions'
                /\ sessions'[objs'[o].ID] = o
       /\ \A id \in DOMAIN sessions \ DOMAIN sessions' :
             last'.op = "delete" => sessions[id] = clients[last'.conn].session]_vars


\* C27: every line the relay writes on behalf of a member of a session, or
\* on a change of its membership, goes to members of that session only,
\* also when the recipient named is a member of another session; an error
\* reply goes to the rejected connection only.
C27_Isolation ==
    /\ last.op \in {"create", "join", "relay", "left"} =>
          DOMAIN last.writes \subseteq objs[clients[last.conn].session].Clients
    /\ last.op = "reject" => DOMAIN last.writes \subseteq {last.conn}

\* a member sent a directed message that names a member of another
\* session, and nothing was written
C27_Witness ==
    /\ last.op = "relay"
    /\ last.msg.type \in DirectedTypes
    /\ \E o \in DOMAIN objs :
          /\ o # clients[last.conn].session
          /\ last.msg.recipient \in objs[o].Clients
          /\ pc[last.msg.recipient] = "relay"
    /\ last.writes = <<>>


\* the members the relay's latest step failed to write to
FailedWrites == DOMAIN last.writes \ last.ok

SessionLockFreeForwardUnlocked(g, o) == locks.smu[o] = 0 \/ pc[g] = "fwd-lock"

\* Mutex.Lock on the mutex of session object o returns
SessionLockFree(g, o) == locks.smu[o] = 0

\* the goroutine g turns to writing to the connections of seq, then goes
\* on at label
Writing(l, g, seq, label) ==
    [l EXCEPT !.todo = Extend(@, g, seq), !.next = Extend(@, g, label)]

\* Start, main.go:64-75: a connection is accepted and its goroutine reads
\* the opening line
Accept(cmd, sid) ==
    /\ budget > 0
    /\ LET c == Cardinality(Conns) + 1
       IN  /\ pc' = Extend(pc, c, "accepted")
           /\ open' = Extend(open, c, TRUE)
           /\ up' = Extend(up, c, << Opening(cmd, sid, CHOOSE n \in Nicknames : TRUE, <<>>) >>)
           /\ locks' = [Writing(locks, c, <<>>, "") EXCEPT !.w = Extend(@, c, 0),
                                                          !.ses = Extend(@, c, 0)]
    /\ budget' = budget - 1
    /\ UNCHANGED <<sessions, objs, clients, down, last, relayed, nsent, model, peer, wire, call>>

\* main.go:116  s.mu.Lock()
LockRegistry(g) ==
    /\ pc[g] = "accepted"
    /\ locks.mu = 0
    /\ locks' = [locks EXCEPT !.mu = g]
    /\ pc' = [pc EXCEPT ![g] = "admitting"]
    /\ UNCHANGED <<sessions, objs, clients, open, up, down, last, relayed, budget, nsent, model, peer, wire, call>>

\* main.go:118-168 and 219-222: the switch, up to the first conn.Write or
\* the wait for the session mutex
Admit(g) ==
    /\ pc[g] = "admitting"
    /\ LET clientMsg == Head(up[g])
           sid == clientMsg.sessionID
           sessionID == IF sid = "" THEN UUID(g) ELSE sid
           client == [id |-> g, nickname |-> clientMsg.nickname, publicKey |-> <<>>,
                      session |-> g]
       IN  IF clientMsg.command = "CREATE" /\ ~(sid # "" /\ sid \in DOMAIN sessions)
           THEN /\ objs' = Extend(objs, g, NewSession(sessionID, g))
                /\ sessions' = Extend(sessions, sessionID, g)
                /\ clients' = Extend(clients, g, client)
                /\ relayed' = Extend(relayed, g, 0)
                /\ locks' = [Writing(locks, g, << g >>, "created") EXCEPT
                                !.smu = Extend(@, g, 0), !.ses[g] = g]
                /\ pc' = [pc EXCEPT ![g] = "writing"]
           ELSE IF clientMsg.command = "JOIN" /\ sid \in DOMAIN sessions
           THEN /\ locks' = [locks EXCEPT !.ses[g] = sessions[sid]]
                /\ pc' = [pc EXCEPT ![g] = "join-lock"]
                /\ UNCHANGED <<sessions, objs, clients, relayed>>
           ELSE /\ locks' = [Writing(locks, g, << g >>, "reject") EXCEPT
                                !.mu = IF clientMsg.command \in {"CREATE", "JOIN"}
                                       THEN g ELSE 0]
                /\ pc' = [pc EXCEPT ![g] = "writing"]
                /\ UNCHANGED <<sessions, objs, clients, relayed>>
    /\ UNCHANGED <<open, up, down, last, budget, nsent, model, peer, wire, call>>

\* session.mu.Lock() and what follows it up to the first conn.Write:
\* main.go:170-198 in JOIN, 272-273 and 283-285 in relayData, 238-239 in
\* its deferred function
LockSession(g) ==
    /\ pc[g] \in {"join-lock", "fwd-lock", "left-lock"}
    /\ SessionLockFree(g, locks.ses[g])
    /\ LET o == locks.ses[g]
           session == objs[o]
           held == [locks EXCEPT !.smu[o] = g]
       IN  IF pc[g] = "join-lock" /\ SessionFull(session)
           THEN locks' = Writing(held, g, << g >>, "reject")
           ELSE IF pc[g] = "join-lock"
           THEN \E ord \in Orderings(session.Clients) :
                   locks' = Writing(held, g, ord \o [i \in 1..Len(ord) |-> g], "join-add")
           ELSE IF pc[g] = "fwd-lock"
           THEN \E ord \in Orderings(Routes(Stamp(Unmarshal(Head(up[g])), g), g, session)) :
                   locks' = Writing(held, g, ord, "fwd-unlock")
           ELSE \E ord \in Orderings(session.Clients) :
                   locks' = Writing(held, g, ord, "left-unlock")
    /\ pc' = [pc EXCEPT ![g] = "writing"]
    /\ UNCHANGED <<sessions, objs, clients, open, up, down, last, relayed, budget, nsent, model, peer, wire, call>>

\* conn.Write is entered
BeginWrite(g) ==
    /\ pc[g] = "writing"
    /\ locks.w[g] = 0
    /\ locks.todo[g] # <<>>
    /\ locks' = [locks EXCEPT !.w[g] = Head(locks.todo[g])]
    /\ UNCHANGED <<sessions, objs, clients, pc, open, up, down, last, relayed, budget, nsent, model, peer, wire, call>>

\* conn.Write returns
EndWrite(g) ==
    /\ pc[g] = "writing"
    /\ locks.w[g] # 0
    /\ locks' = [locks EXCEPT !.w[g] = 0, !.todo[g] = Tail(@)]
    /\ UNCHANGED <<sessions, objs, clients, pc, open, up, down, last, relayed, budget, nsent, model, peer, wire, call>>

\* what follows the writes: main.go:135-137 and the like ("reject"), 157
\* ("created"), 212-214 ("join-add"), 215-216 ("join-unlock"), 280 and 293
\* ("fwd-unlock"), 242 ("left-unlock")
AfterWrites(g) ==
    /\ pc[g] = "writing"
    /\ locks.w[g] = 0
    /\ locks.todo[g] = <<>>
    /\ LET o == locks.ses[g]
           freed == [locks EXCEPT !.mu = IF @ = g THEN 0 ELSE @,
                                  !.smu = [x \in DOMAIN @ |-> IF @[x] = g THEN 0 ELSE @[x]]]
       IN  CASE locks.next[g] = "reject" ->
                  /\ locks' = freed
                  /\ open' = [open EXCEPT ![g] = FALSE]
                  /\ pc' = [pc EXCEPT ![g] = "rejected"]
                  /\ UNCHANGED <<objs, clients, up>>
             [] locks.next[g] = "created" ->
                  /\ locks' = freed
                  /\ pc' = [pc EXCEPT ![g] = "relay"]
                  /\ up' = [up EXCEPT ![g] = Tail(@)]
                  /\ UNCHANGED <<objs, clients, open>>
             [] locks.next[g] = "join-add" ->
                  /\ objs' = [objs EXCEPT ![o].Clients = @ \cup {g}]
                  /\ clients' = Extend(clients, g,
                                       [id |-> g, nickname |-> Head(up[g]).nickname,
                                        publicKey |-> <<>>, session |-> o])
                  /\ locks' = Writing(locks, g, << g >>, "join-unlock")
                  /\ UNCHANGED <<pc, open, up>>
             [] locks.next[g] = "join-unlock" ->
                  /\ locks' = freed
                  /\ pc' = [pc EXCEPT ![g] = "relay"]
                  /\ up' = [up EXCEPT ![g] = Tail(@)]
                  /\ UNCHANGED <<objs, clients, open>>
             [] locks.next[g] = "fwd-unlock" ->
                  /\ locks' = freed
                  /\ pc' = [pc EXCEPT ![g] = "relay"]
                  /\ up' = [up EXCEPT ![g] = Tail(@)]
                  /\ UNCHANGED <<objs, clients, open>>
             [] locks.next[g] = "left-unlock" ->
                  /\ locks' = freed
                  /\ pc' = [pc EXCEPT ![g] = "done"]
                  /\ UNCHANGED <<objs, clients, open, up>>
    /\ UNCHANGED <<sessions, down, last, relayed, budget, nsent, model, peer, wire, call>>

\* a member's peer writes a line, the one before it having been read
MemberSend(g, m) ==
    /\ pc[g] = "relay"
    /\ up[g] = <<>>
    /\ nsent < MaxSends
    /\ up' = [up EXCEPT ![g] = Append(@, m)]
    /\ nsent' = nsent + 1
    /\ UNCHANGED <<sessions, objs, clients, pc, open, down, last, relayed, budget, model, peer, wire, call, locks>>

\* relayData, main.go:252-270: a line is read; a directed line without a
\* recipient is dropped
ReadLine(g) ==
    /\ pc[g] = "relay"
    /\ up[g] # <<>>
    /\ LET msg == Unmarshal(Head(up[g]))
       IN  IF msg.type \in DirectedTypes /\ msg.recipient = 0
           THEN /\ up' = [up EXCEPT ![g] = Tail(@)]
                /\ pc' = pc
           ELSE /\ up' = up
                /\ pc' = [pc EXCEPT ![g] = "fwd-lock"]
    /\ UNCHANGED <<sessions, objs, clients, open, down, last, relayed, budget, nsent, model, peer, wire, call, locks>>

\* relayData, main.go:252-255, and removeClient, main.go:299: the read
\* fails, the connection is closed
ReadFails(g) ==
    /\ pc[g] = "relay"
    /\ up[g] = <<>>
    /\ open' = [open EXCEPT ![g] = FALSE]
    /\ pc' = [pc EXCEPT ![g] = "rm-lock"]
    /\ UNCHANGED <<sessions, objs, clients, up, down, last, relayed, budget, nsent, model, peer, wire, call, locks>>

\* removeClient, mutated: session.mu is still held when the registry mutex
\* is requested for the delete of an emptied session
DeleteMemberHolding(g) ==
    /\ pc[g] = "rm-lock"
    /\ SessionLockFree(g, locks.ses[g])
    /\ LET o == locks.ses[g]
           left == objs[o].Clients \ {g}
       IN  /\ objs' = [objs EXCEPT ![o].Clients = left]
           /\ pc' = [pc EXCEPT ![g] = IF left = {} THEN "rm-lockreg" ELSE "left-lock"]
           /\ locks' = IF left = {} THEN [locks EXCEPT !.smu[o] = g] ELSE locks
    /\ UNCHANGED <<sessions, clients, open, up, down, last, relayed, budget, nsent, model, peer, wire, call>>

\* removeClient, main.go:300-305 and 311: under the session mutex
DeleteMember(g) ==
    /\ pc[g] = "rm-lock"
    /\ SessionLockFree(g, locks.ses[g])
    /\ LET o == locks.ses[g]
           left == objs[o].Clients \ {g}
       IN  /\ objs' = [objs EXCEPT ![o].Clients = left]
           /\ pc' = [pc EXCEPT ![g] = IF left = {} THEN "rm-lockreg" ELSE "left-lock"]
    /\ UNCHANGED <<sessions, clients, open, up, down, last, relayed, budget, nsent, model, peer, wire, call, locks>>

\* removeClient, main.go:306-309: under the registry mutex
DeleteSession(g) ==
    /\ pc[g] = "rm-lockreg"
    /\ locks.mu = 0
    /\ sessions' = Without(sessions, objs[locks.ses[g]].ID)
    /\ pc' = [pc EXCEPT ![g] = "left-lock"]
    /\ UNCHANGED <<objs, clients, open, up, down, last, relayed, budget, nsent, model, peer, wire, call, locks>>

LockInit == RelayInit

\* the lines a member sends: a broadcast, and a message to each connection
MemberLines ==
    {RelayMsg("nickname", 0, 0, Hello)}
    \cup {RelayMsg("message", r, 0, Hello) : r \in 0..MaxConns}

LockNext ==
    \/ \E cmd \in Commands, sid \in {"", "s1"} : Accept(cmd, sid)
    \/ \E g \in Conns : LockRegistry(g)
    \/ \E g \in Conns : Admit(g)
    \/ \E g \in Conns : LockSession(g)
    \/ \E g \in Conns : BeginWrite(g)
    \/ \E g \in Conns : EndWrite(g)
    \/ \E g \in Conns : AfterWrites(g)
    \/ \E g \in Conns, m \in MemberLines : MemberSend(g, m)
    \/ \E g \in Conns : ReadLine(g)
    \/ \E g \in Conns : ReadFails(g)
    \/ \E g \in Conns : DeleteMember(g)
    \/ \E g \in Conns : DeleteSession(g)

SpecLocks == LockInit /\ [][LockNext]_vars

\* the goroutines inside conn.Write on connection c
Writers(c) == {g \in Conns : locks.w[g] = c}

\* C29: at most one goroutine is inside conn.Write on any one connection,
\* whichever writes meet: forwarding, the notifications and replies of
\* JOIN and CREATE, error replies and user_left.
C29_WriteSerialization ==
    \A c \in Conns : Cardinality(Writers(c)) <= 1

\* a goroutine is inside a forwarding write to a member while another
\* waits for the same session's mutex to forward to that member too
C29_Witness ==
    \E g \in Conns, h \in Conns :
        /\ g # h
        /\ locks.w[g] \notin {0, g}
        /\ locks.next[g] = "fwd-unlock"
        /\ pc[h] = "fwd-lock"
        /\ locks.ses[h] = locks.ses[g]
        /\ Routes(Stamp(Unmarshal(Head(up[h])), h), h, objs[locks.ses[h]]) = {locks.w[g]}


\* C30: no goroutine is inside conn.Write while it holds the registry
\* mutex RelayServer.mu, so a stalled connection cannot delay the
\* admissions to other sessions.
C30_RegistryLockFreeOfIO ==
    \A g \in Conns : locks.w[g] # 0 => locks.mu # g

\* a JOIN is inside the user_joined write to a member of its session,
\* holding the registry mutex, while the opening of another session waits
\* for that mutex
JoinWriteHoldsRegistry ==
    \E g \in Conns, h \in Conns :
        /\ locks.mu = g
        /\ locks.w[g] \notin {0, g}
        /\ locks.next[g] = "join-add"
        /\ pc[h] = "accepted"
        /\ Head(up[h]).command = "CREATE"
        /\ Head(up[h]).sessionID = ""


\* a step of a relay goroutine: past a Lock call, through its statements,
\* into and out of conn.Write
GoroutineStep ==
    \E g \in Conns :
        \/ LockRegistry(g) \/ Admit(g) \/ LockSession(g)
        \/ BeginWrite(g) \/ EndWrite(g) \/ AfterWrites(g)
        \/ ReadLine(g) \/ DeleteMember(g) \/ DeleteSession(g)

\* While a goroutine can run one does, and a conn.Write under way returns;
\* this asks less of the scheduler and of sync.Mutex than they give (a
\* contended mutex is handed to its longest waiter).  No fairness for what
\* peers do: connecting, sending, closing.
LockFairness == WF_vars(GoroutineStep)

\* the interleavings of LockNext with one line sent, a broadcast
LockFairNext ==
    \/ \E cmd \in Commands, sid \in {"", "s1"} : Accept(cmd, sid)
    \/ \E g \in Conns : LockRegistry(g)
    \/ \E g \in Conns : Admit(g)
    \/ \E g \in Conns : LockSession(g)
    \/ \E g \in Conns : BeginWrite(g)
    \/ \E g \in Conns : EndWrite(g)
    \/ \E g \in Conns : AfterWrites(g)
    \/ \E g \in Conns : ReadLine(g)
    \/ \E g \in Conns : DeleteMember(g)
    \/ \E g \in Conns : DeleteSession(g)
    \/ \E g \in Conns : nsent < MaxLines /\ MemberSend(g, RelayMsg("nickname", 0, 0, Hello))
    \/ \E g \in Conns : ReadFails(g)

SpecLocksFair == LockInit /\ [][LockFairNext]_vars /\ LockFairness

\* the goroutine g is at a Lock call
WantsRegistry(g) == g \in Conns /\ pc[g] \in {"accepted", "rm-lockreg"}
WantsSession(g) == g \in Conns /\ pc[g] \in {"join-lock", "fwd-lock", "left-lock", "rm-lock"}

\* the goroutines that hold the mutex g is waiting for
Blockers(g) ==
    (IF WantsRegistry(g) THEN {locks.mu} ELSE {})
    \cup (IF WantsSession(g) THEN {locks.smu[locks.ses[g]]} ELSE {})

\* the goroutines g waits for, directly or through others
RECURSIVE WaitsOn(_, _)
WaitsOn(g, n) ==
    IF n = 0 THEN {}
    ELSE LET b == Blockers(g) \ {0}
         IN  b \cup UNION {WaitsOn(h, n - 1) : h \in b}

WaitCycle == \E g \in Conns : g \in WaitsOn(g, MaxConns)

\* C31: no goroutines wait for the registry mutex and the session mutexes
\* in a cycle, and a goroutine at a Lock call gets past it, given that
\* every conn.Write returns.
C31_NoLockDeadlock ==
    /\ [] ~WaitCycle
    /\ \A g \in 1..MaxConns :
          /\ WantsRegistry(g) ~> ~WantsRegistry(g)
          /\ WantsSession(g) ~> ~WantsSession(g)

\* a JOIN holds the registry mutex and waits for the mutex of its session,
\* held by a forwarding member, while a third goroutine waits for the
\* registry mutex
C31_Witness ==
    \E g \in Conns, h \in Conns, k \in Conns :
        /\ pc[g] = "join-lock"
        /\ locks.mu = g
        /\ locks.smu[locks.ses[g]] = h
        /\ locks.next[h] = "fwd-unlock"
        /\ pc[k] = "accepted"


(***************************************************************************)
(* Membership lines and the lines of members.                              *)
(***************************************************************************)
MembershipTypes == {"user_joined", "user_left", "public_key"}

\* C32: a line of type user_joined, user_left or public_key is written to
\* a member only by the relay's admission or departure handling, never as
\* the forwarding of a line some member sent.
C32_AuthenticNotifications ==
    last.op = "relay" =>
        \A d \in DOMAIN last.writes :
            \A i \in 1..Len(last.writes[d]) :
                last.writes[d][i].type \notin MembershipTypes



(***************************************************************************)
(* Admission with lines sent behind the opening command: the peer need not *)
(* wait for the reply before it writes on.                                 *)
(***************************************************************************)
HandoffNext ==
    \/ \E cmd \in Commands, sid \in SessionIDsIn : Connect(cmd, sid, <<>>)
    \/ \E c \in Conns, m \in PeerLines : PeerSend(c, m)
    \/ \E c \in Conns, lost \in 0..MaxLines : HandleConnection(c, lost)
    \/ \E c \in Conns : RelayData(c)

SpecHandoff == RelayInit /\ [][HandoffNext]_vars

\* C33: the lines a peer has sent after its opening command are all before
\* relayData when the connection is admitted, in order, whether or not
\* they arrived in the same read as the opening command.
C33_RelayHandoff ==
    [][\A c \in Conns :
          (pc[c] = "accepted" /\ pc'[c] = "relay") => up'[c] = Tail(up[c])]_vars


\* C34: a successful PerformKeyExchange takes the 37 bytes of the peer's
\* key frame from the stream and no more, so that ListenForMessages reads
\* every frame the peer wrote behind it, from its first byte on.
C34_ClientHandoff ==
    [][\A s \in Sides :
          (peer[s].pc = "read" /\ peer'[s].pc \notin {"read", "failed"})
          => wire'.to[s] = SubSeq(wire.to[s], 5 + KeySize + 1, Len(wire.to[s]))]_vars


\* a transfer the client m is part of: an offer of its own awaiting its
\* answer, a file being sent, an offer received or a file being received
Awaiting(m) == m.IsAwaitingAcceptance
Sending(m) == m.IsTransferring /\ ~m.IsReceiving
Receiving(m) == m.IsReceiving \/ m.PendingOffer # NoMeta

Busy(m) == Awaiting(m) \/ Sending(m) \/ Receiving(m)

OneTransfer ==
    \A c \in DOMAIN model :
        model[c].stage = "listening" =>
           /\ ~(Awaiting(model[c]) /\ Sending(model[c]))
           /\ ~(Awaiting(model[c]) /\ Receiving(model[c]))
           /\ ~(Sending(model[c]) /\ Receiving(model[c]))

\* a /send is entered at client c, or a file offer is read by it
SendOrOffer(c) ==
    \/ model'[c].key = "/send" /\ model'[c] # model[c]
    \/ /\ down[c] # <<>> /\ down'[c] = Tail(down[c])
       /\ Head(down[c]).kind = "json" /\ Head(down[c]).type = "file_offer"

BusyKeeps ==
    \A c \in DOMAIN model :
        (model[c].stage = "listening" /\ Busy(model[c]) /\ SendOrOffer(c)) =>
           /\ model'[c].PendingOffer = model[c].PendingOffer
           /\ model'[c].ReceivingFile = model[c].ReceivingFile
           /\ model'[c].IsAwaitingAcceptance = model[c].IsAwaitingAcceptance
           /\ model'[c].IsTransferring = model[c].IsTransferring
           /\ model'[c].IsReceiving = model[c].IsReceiving

\* C35: a client is part of at most one transfer at a time, and a /send or
\* a file offer that comes while it is part of one leaves the pending
\* offer, the file being received and the transfer flags as they were.
C35_OneTransfer == []OneTransfer /\ [][BusyKeeps]_vars


\* the client c writes an answer to a file offer in this step
Answers(c) ==
    /\ Len(up'[c]) = Len(up[c]) + 1
    /\ SubSeq(up'[c], 1, Len(up[c])) = up[c]
    /\ LET line == up'[c][Len(up'[c])]
       IN  line.kind = "json" /\ "type" \in DOMAIN line
           /\ line.type \in {"file_accept", "file_reject"}

\* C36: once a client has accepted an offer, and until file_done has come,
\* its key presses send no further file_accept or file_reject and leave
\* what has been written of the file in place.
C36_OneAnswer ==
    [][\A c \in DOMAIN model :
          (model[c].stage = "listening" /\ model[c].IsReceiving) =>
             /\ ~Answers(c)
             /\ \A f \in DOMAIN model[c].disk :
                   /\ f \in DOMAIN model'[c].disk
                   /\ IsPrefix(model[c].disk[f].bytes, model'[c].disk[f].bytes)]_vars


\* the client c reads a file_accept line in this step
ReadsAccept(c) ==
    /\ down[c] # <<>>
    /\ down'[c] = Tail(down[c])
    /\ Head(down[c]).kind = "json"
    /\ Head(down[c]).type = "file_accept"

\* C37: when a client has handled a file_accept and the run of
\* SendFileChunks it started has ended without an error, all its reports
\* handled, the client is no longer transferring, whatever the size of the
\* file.
C37_SenderReturns ==
    [][\A c \in DOMAIN model :
          (model[c].stage = "listening" /\ ReadsAccept(c)
           /\ model'[c].stage = "listening")
          => ~model'[c].IsTransferring /\ model'[c].Status = Rest(model'[c])]_vars


(***************************************************************************)
(* Clients in a session that a peer joins with or without a public key in  *)
(* its opening command.                                                    *)
(***************************************************************************)
KeylessNext ==
    \/ \E cmd \in {"CREATE", "JOIN"}, sid \in {"", "s1"} : Dial(cmd, sid)
    \/ \E key \in {<<>>, PublicKey(Cardinality(Conns) + 1)} : Connect("JOIN", "s1", key)
    \/ \E c \in Conns : HandleConnection(c, 0)
    \/ \E c \in Conns : InitRead(c, 0)
    \/ \E c \in Conns : Listen(c)
    \/ \E c \in Conns : Quit(c)

SpecKeyless == RelayInit /\ [][KeylessNext]_vars

\* C38: whatever object the relay sends it, a client's ListenForMessages
\* goes on to the next line: the process is never aborted.
C38_ReaderNeverCrashes ==
    \A c \in DOMAIN model : model[c].stage # "crashed"


(***************************************************************************)
(* ListenForMessages of the two-party client called without a key          *)
(* (part_000:27-38): PerformKeyExchange runs first, against whatever the   *)
(* peer writes.  call.step is where PerformKeyExchange stands, call.got    *)
(* what the peer wrote while it ran, call.out what the call wrote,         *)
(* call.wfail whether conn.Write fails.                                    *)
(***************************************************************************)
\* part_000:29-32, mutated: the error is reported and the loop entered
HandshakeFailedGoesOn(c, why) ==
    [c EXCEPT !.fn = "ListenForMessages", !.events = << Failure(why) >>,
              !.exited = FALSE]

\* part_000:29-32: PerformKeyExchange has returned an error
HandshakeFailed(c, why) ==
    [c EXCEPT !.fn = "ListenForMessages", !.events = << Failure(why) >>,
              !.exited = TRUE]

\* PerformKeyExchange, crypto.go:110-119 and 147-155
KxCallWrite ==
    /\ call.fn = "PerformKeyExchange"
    /\ call.step = "write"
    /\ call' = IF call.wfail THEN HandshakeFailed(call, "failed to send public key")
               ELSE [call EXCEPT !.out = Frame(TypePublicKeyExchange,
                                               ScalarBaseMult(call.privateKey)),
                                 !.step = AfterStep(call.isInitiator, "write")]
    /\ UNCHANGED <<relayVars, peer, wire, locks>>

\* PerformKeyExchange, crypto.go:121-131 and 134-145; what its own
\* bufio.Reader holds beyond the frame goes with it (crypto.go:105)
KxCallRead(lost) ==
    /\ call.fn = "PerformKeyExchange"
    /\ call.step = "read"
    /\ LET r == ReadTLV(call.in)
       IN  /\ r.st = "wait" => call.end # "open"
           /\ IF r.st # "ok"
              THEN /\ lost = 0
                   /\ call' = HandshakeFailed([call EXCEPT !.in = <<>>],
                                              "failed to read peer's public key")
              ELSE IF r.msgType # TypePublicKeyExchange
              THEN /\ lost = 0
                   /\ call' = HandshakeFailed([call EXCEPT !.in = <<>>],
                                              "expected TypePublicKeyExchange")
              ELSE IF Len(r.payload) # KeySize
              THEN /\ lost = 0
                   /\ call' = HandshakeFailed([call EXCEPT !.in = <<>>],
                                              "peer public key of wrong size")
              ELSE /\ lost \in {0, Len(r.rest)}
                   /\ call' = [call EXCEPT !.theirs = CopyKey(r.payload),
                                           !.in = SubSeq(r.rest, lost + 1, Len(r.rest)),
                                           !.step = AfterStep(call.isInitiator, "read")]
    /\ UNCHANGED <<relayVars, peer, wire, locks>>

\* PerformKeyExchange, crypto.go:161-166, and part_000:33-35
KxCallCompute ==
    /\ call.fn = "PerformKeyExchange"
    /\ call.step = "compute"
    /\ LET k == X25519(call.privateKey, call.theirs)
       IN  call' = IF k.err THEN HandshakeFailed(call, "failed to compute shared key")
                   ELSE [call EXCEPT !.fn = "ListenForMessages",
                                     !.sharedKey = k.out,
                                     !.events = << Event("SharedKey", k.out),
                                                   Event("MyPublicKey",
                                                         ScalarBaseMult(call.privateKey)),
                                                   Event("PeerPublicKey", call.theirs) >>]
    /\ UNCHANGED <<relayVars, peer, wire, locks>>

\* what a peer may write in place of its key frame: the frame itself, the
\* key under another type, keys of other lengths, an empty frame, a header
\* that announces more than the largest message
KxFramesIn ==
    {Frame(TypePublicKeyExchange, PublicKey(2)),
     Frame(TypeText, PublicKey(2)),
     Frame(TypePublicKeyExchange, SubSeq(PublicKey(2), 1, KeySize - 1)),
     Frame(TypePublicKeyExchange, PublicKey(2) \o <<0>>),
     Frame(TypePublicKeyExchange, <<>>),
     Frame(TypeText, <<>>),
     << TypeText >> \o BE32(MaxMessageSize + 1),
     Frame(TypePublicKeyExchange, PublicKey(2))
        \o Frame(TypeText, Seal(ListenKey, ListenNonce, Bytes("hi")))}

\* the peer writes while PerformKeyExchange runs
KxPeerWrite(bytes) ==
    /\ call.fn = "PerformKeyExchange"
    /\ call.end = "open"
    /\ call.got = <<>>
    /\ call' = [call EXCEPT !.in = @ \o bytes, !.got = @ \o bytes]
    /\ UNCHANGED <<relayVars, peer, wire, locks>>

\* the stream ends while PerformKeyExchange runs, cut bytes of the key
\* frame having been written
KxStreamEnd(how, cut) ==
    /\ call.fn = "PerformKeyExchange"
    /\ call.end = "open"
    /\ call.got = <<>>
    /\ LET bytes == SubSeq(Frame(TypePublicKeyExchange, PublicKey(2)), 1, cut)
       IN  call' = [call EXCEPT !.in = @ \o bytes, !.got = @ \o bytes, !.end = how,
                                !.cut = cut]
    /\ UNCHANGED <<relayVars, peer, wire, locks>>

KxCallInit ==
    /\ sessions = <<>> /\ objs = <<>> /\ clients = <<>> /\ pc = <<>>
    /\ open = <<>> /\ up = <<>> /\ down = <<>> /\ relayed = <<>>
    /\ last = Step("none", 0, NoLine, <<>>, {})
    /\ budget = 0
    /\ nsent = 0
    /\ model = <<>>
    /\ peer = <<>>
    /\ wire = <<>>
    /\ \E isInitiator \in BOOLEAN, wfail \in BOOLEAN :
          call = [fn |-> "PerformKeyExchange", sharedKey |-> <<>>, in |-> <<>>,
                  end |-> "open", events |-> <<>>, read |-> 0, exited |-> FALSE,
                  written |-> <<>>, cut |-> 0,
                  isInitiator |-> isInitiator, privateKey |-> PrivateKey(1),
                  step |-> FirstStep(isInitiator), theirs |-> <<>>, out |-> <<>>,
                  got |-> <<>>, wfail |-> wfail]
    /\ locks = NoLocks

KxCallNext ==
    \/ KxCallWrite
    \/ \E lost \in 0..Len(call.in) : KxCallRead(lost)
    \/ KxCallCompute
    \/ \E bytes \in KxFramesIn : KxPeerWrite(bytes)
    \/ \E how \in {"eof", "reset", "closed"}, cut \in {0, 1, 5, 36} : KxStreamEnd(how, cut)
    \/ ListenTurn
    \/ \E f \in {Sound(TypeText, Bytes("hi"), "ReceivedText", Bytes("hi")),
                 Unsound(99, <<1>>)} : StreamWrite(f)
    \/ \E how \in {"eof", "reset"} :
          StreamEnd(how, Sound(TypeText, Bytes("hi"), "ReceivedText", Bytes("hi")), 0)

SpecKxCall == KxCallInit /\ [][KxCallNext]_vars

\* what the peer wrote is not a key frame of 32 bytes, or the stream ended
\* before one had come, or the call's own write fails
Deviation ==
    \/ call.wfail
    \/ Len(call.got) >= 5
       /\ (call.got[1] # TypePublicKeyExchange \/ UnBE32(SubSeq(call.got, 2, 5)) # KeySize)
    \/ Len(call.got) < 5 + KeySize /\ call.end # "open"

\* C39: when PerformKeyExchange has returned after a frame of another type
\* or length, a failed read or a failed write, ListenForMessages has
\* returned too, with one error event and nothing else: no key, no turn of
\* the frame loop.
C39_HandshakeFailsClosed ==
    (call.fn = "ListenForMessages" /\ "got" \in DOMAIN call /\ Deviation) =>
        /\ call.exited
        /\ Len(call.events) = 1
        /\ call.events[1].ev = "Error"
        /\ call.sharedKey = <<>>
        /\ call.read = 0

\* the peer wrote a frame of 32 bytes under the type of a text message and
\* the call has returned
C39_Witness ==
    /\ call.fn = "ListenForMessages"
    /\ "got" \in DOMAIN call
    /\ call.got = Frame(TypeText, PublicKey(2))
    /\ call.exited
    /\ call.events[1].ev = "Error"


(***************************************************************************)
(* The frame loop before headers that announce long payloads.              *)
(***************************************************************************)
\* the peer writes, once, the five bytes of a header and the first bytes
\* of the payload it announces
StreamHeader(msgType, length, some) ==
    /\ call.fn = "ListenForMessages"
    /\ call.end = "open"
    /\ call.cut = 0
    /\ call' = [call EXCEPT !.in = @ \o << msgType >> \o BE32(length) \o some,
                            !.cut = 5 + Len(some)]
    /\ UNCHANGED <<relayVars, peer, wire, locks>>

OversizeNext ==
    \/ ListenTurn
    \/ \E f \in SoundFrames : StreamWrite(f)
    \/ \E length \in {MaxMessageSize - 1, MaxMessageSize, MaxMessageSize + 1},
          some \in {<<>>, Bytes("hi")} : StreamHeader(TypeText, length, some)
    \/ \E how \in {"eof", "reset"} :
          StreamEnd(how, Sound(TypeText, Bytes("hi"), "ReceivedText", Bytes("hi")), 0)

SpecOversize == ListenInit /\ [][OversizeNext]_vars

\* the unread input begins with a header that announces more than the
\* largest message
Oversize(b) == Len(b) >= 5 /\ UnBE32(SubSeq(b, 2, 5)) > MaxMessageSize

\* C40: a frame whose header announces more than 10 MiB is refused by the
\* frame loop on its header: the loop ends with an error for the length,
\* having taken the five bytes of the header and none of the payload.
C40_FrameCap ==
    [][(call.fn = "ListenForMessages" /\ ~call.exited /\ Oversize(call.in)
        /\ call' # call)
       => \/ ~Oversize(call'.in) /\ call'.exited
             /\ call'.events = Append(call.events, Failure("message length too large"))
             /\ call'.in = SubSeq(call.in, 6, Len(call.in))
          \/ Oversize(call'.in) /\ call'.events = call.events /\ ~call'.exited
             /\ call.end = "open"]_vars

====
